---- MODULE Spec2Model ----
(***************************************************************************)
(* Order reconciliation core: the two Converge batch resolvers             *)
(* (reconciliation_parser.py) and the order classifier                     *)
(* (order_classifier.py).                                                  *)
(*                                                                         *)
(* Python values.  None is [t |-> "None"]; a str is [t |-> "str", s |-> c] *)
(* where c is the text cut into chunks (a chunk is a run of characters     *)
(* that every string operation used by the code treats as a unit: one      *)
(* blank, one word in one letter case, one group of digits, one "$", one   *)
(* ",", one ".").  Equal texts are always cut the same way, so equality of *)
(* chunk sequences is equality of texts.  A number is [t |-> "num", v].    *)
(* Currency amounts are held in cents.                                     *)
(***************************************************************************)
EXTENDS Integers, Sequences, FiniteSets, TLC

VARIABLES
    converge_rows,      \* argument of resolve_converge_current
    current_result,     \* its outcome: pending, raise or return
    permuted_rows,      \* the same batch, rows in another order (a second call)
    permuted_result,    \* outcome of the call on permuted_rows
    settled_rows,       \* argument of resolve_converge_settled
    settled_result,     \* its outcome: pending, raise or return
    \* classify_orders: where the call stands, the order of the loop
    \* iteration just run with what the iteration looked up for it, and the
    \* function's accumulators under their names in the source
    pc,
    order,
    orders_result,
    successful_orders,
    rejected_orders,
    failed_orders,
    action_required_orders,
    retry_success_orders,
    converge_data_inconsistencies,
    settlement_amount_mismatches,
    settled_no_asn_orders,
    classification_stats,
    customer_history,
    \* the arguments order_totals and asn_process_numbers of a call of
    \* classify_orders that is given them, and the outcome of a second call
    order_totals,
    asn_process_numbers,
    rerun_result,
    \* run_reconciliation of the controller: what the queries returned, and
    \* what the caller of the endpoint receives
    order_items,
    sales_orders,
    response

resolverVars == <<converge_rows, current_result, permuted_rows, permuted_result,
                  settled_rows, settled_result>>

classifierVars == <<pc, order, orders_result, successful_orders, rejected_orders,
                    failed_orders, action_required_orders, retry_success_orders,
                    converge_data_inconsistencies, settlement_amount_mismatches,
                    settled_no_asn_orders, classification_stats, customer_history>>

controllerVars == <<order_totals, asn_process_numbers, rerun_result,
                    order_items, sales_orders, response>>

vars == <<resolverVars, classifierVars, controllerVars>>

-----------------------------------------------------------------------------
(* Bounds of the model *)

MaxRows == 2

-----------------------------------------------------------------------------
(* Python values and the str methods the code calls *)

None == [t |-> "None"]
Str(s) == [t |-> "str", s |-> s]
Num(n) == [t |-> "num", v |-> n]
IsStr(x) == x.t = "str"

ValueError == [t |-> "ValueError"]

Pending == [kind |-> "pending"]
Raise(e) == [kind |-> "raise", exc |-> e]

\* row.get(col): None for a column the row does not have
Get(row, col) == IF col \in DOMAIN row THEN row[col] ELSE None

\* (x or ""), as chunks: None and "" both give the empty text
OrEmpty(x) == IF IsStr(x) THEN x.s ELSE <<>>

RECURSIVE LStrip(_)
LStrip(s) == IF s # <<>> /\ Head(s) = " " THEN LStrip(Tail(s)) ELSE s

RECURSIVE RStrip(_)
RStrip(s) == IF s # <<>> /\ s[Len(s)] = " "
             THEN RStrip(SubSeq(s, 1, Len(s) - 1)) ELSE s

\* str.strip()
Strip(s) == RStrip(LStrip(s))

UpperChunk(c) ==
    CASE c = "approval" -> "APPROVAL"
      [] c = "declined" -> "DECLINED"
      [] c = "sale"     -> "SALE"
      [] c = "return"   -> "RETURN"
      [] OTHER          -> c

\* str.upper()
Upper(s) == [i \in 1..Len(s) |-> UpperChunk(s[i])]

\* str.startswith(p)
StartsWith(s, p) == Len(p) <= Len(s) /\ SubSeq(s, 1, Len(p)) = p

\* p in s  (substring)
Contains(s, p) ==
    \E i \in 1..(Len(s) - Len(p) + 1) : SubSeq(s, i, i + Len(p) - 1) = p

\* str.replace(c, "") for a one-character c
Remove(s, c) == SelectSeq(s, LAMBDA x : x # c)

\* The orders in which a Python set can be iterated: str hashes are salted
\* per process, so any order of the elements can come out.
IterOrders(S) ==
    {q \in [1..Cardinality(S) -> S] : \A x \in S : \E i \in DOMAIN q : q[i] = x}

BoundedSeq(S, n) == UNION {[1..k -> S] : k \in 0..n}

-----------------------------------------------------------------------------
(* Numerals: float(str) and int(str) *)

DigitChunks == {"0", "1", "2", "50", "00", "01", "050", "100"}

DigitLen(c) == CASE c \in {"0", "1", "2"} -> 1
                 [] c \in {"50", "00", "01"} -> 2
                 [] OTHER -> 3

DigitVal(c) == CASE c = "0" -> 0   [] c = "1" -> 1   [] c = "2" -> 2
                 [] c = "50" -> 50 [] c = "00" -> 0  [] c = "01" -> 1
                 [] c = "050" -> 50 [] OTHER -> 100

RECURSIVE Pow10(_)
Pow10(n) == IF n = 0 THEN 1 ELSE 10 * Pow10(n - 1)

AllDigits(s) == \A i \in DOMAIN s : s[i] \in DigitChunks

RECURSIVE Digits(_)
\* how many digits the digit chunks of s hold
Digits(s) == IF s = <<>> THEN 0 ELSE Digits(Tail(s)) + DigitLen(Head(s))

RECURSIVE Numeral(_)
\* the number the concatenated digit chunks of s denote
Numeral(s) ==
    IF s = <<>> THEN 0
    ELSE Numeral(SubSeq(s, 1, Len(s) - 1)) * Pow10(DigitLen(s[Len(s)]))
         + DigitVal(s[Len(s)])

\* float(text) of an unsigned decimal, in cents; ValueError when the text
\* is no decimal numeral (float() itself drops surrounding blanks).
UnsignedFloat(s) ==
    LET dots == {i \in DOMAIN s : s[i] = "."} IN
    IF dots = {} THEN
        IF s # <<>> /\ AllDigits(s) THEN Num(Numeral(s) * 100) ELSE ValueError
    ELSE IF Cardinality(dots) > 1 THEN ValueError
    ELSE LET p == CHOOSE i \in dots : TRUE
             whole == SubSeq(s, 1, p - 1)
             frac == SubSeq(s, p + 1, Len(s))
         IN IF AllDigits(whole) /\ AllDigits(frac) /\ Len(s) > 1
            THEN Num(Numeral(whole) * 100
                     + (Numeral(frac) * 100) \div Pow10(Digits(frac)))
            ELSE ValueError

ParseFloat(text) ==
    LET s == Strip(text) IN
    IF s # <<>> /\ Head(s) = "-"
    THEN LET u == UnsignedFloat(Tail(s)) IN
         IF u = ValueError THEN u ELSE Num(0 - u.v)
    ELSE UnsignedFloat(s)

\* int(text): an optional sign and digits only
ParseInt(text) ==
    LET s == Strip(text)
        body == IF s # <<>> /\ Head(s) = "-" THEN Tail(s) ELSE s
    IN IF body # <<>> /\ AllDigits(body)
       THEN Num(IF body = s THEN Numeral(body) ELSE 0 - Numeral(body))
       ELSE ValueError

\* a variant without the except clause: the ValueError of float() escapes
safe_float_uncaught(value) ==
    IF value = None \/ value = Str(<<>>) THEN None
    ELSE IF IsStr(value)
         THEN ParseFloat(Strip(Remove(Remove(value.s, "$"), ",")))
         ELSE value

\* _safe_float: the except clause turns ValueError into None
_safe_float(value) ==
    IF value = None \/ value = Str(<<>>) THEN None
    ELSE IF IsStr(value)
         THEN LET f == ParseFloat(Strip(Remove(Remove(value.s, "$"), ",")))
              IN IF f = ValueError THEN None ELSE f
         ELSE value

_safe_int(value) ==
    IF value = None \/ value = Str(<<>>) THEN None
    ELSE IF IsStr(value)
         THEN LET n == ParseInt(Strip(value.s))
              IN IF n = ValueError THEN None ELSE n
         ELSE value

-----------------------------------------------------------------------------
(* Batch validation and the summary row *)

REQUIRED_CURRENT_COLUMNS == {"Invoice Number", "Auth Message"}
REQUIRED_SETTLED_COLUMNS == {"Invoice Number", "Original Transaction Type",
                             "Transaction Status", "Original Amount"}

\* validate_csv_columns: TRUE when it raises ValidationError
\* a variant that only rejects the empty batch
validate_csv_columns_empty_only(rows, required_columns) == rows = <<>>

validate_csv_columns(rows, required_columns) ==
    \/ rows = <<>>
    \/ \E col \in required_columns : col \notin DOMAIN rows[1]

_parse_summary_row(row) ==
    LET raw == Get(row, "Sales Count")
        sales_count == IF IsStr(raw) THEN Str(Strip(raw.s)) ELSE raw
    IN IF sales_count = None \/ sales_count = Str(<<>>) THEN None
       ELSE [sales_count   |-> _safe_int(sales_count),
             total_sales   |-> _safe_float(Get(row, "Total Sales")),
             returns_count |-> _safe_int(Get(row, "Returns Count")),
             total_returns |-> _safe_float(Get(row, "Total Returns")),
             net_sales     |-> _safe_float(Get(row, "Net Sales")),
             others_count  |-> _safe_int(Get(row, "Others Count")),
             total_count   |-> _safe_int(Get(row, "Total Count"))]

\* invoice = (row.get("Invoice Number") or "").strip()
InvoiceOf(row) == Strip(OrEmpty(Get(row, "Invoice Number")))

\* the keys of invoice_map
InvoiceKeys(rows) ==
    {InvoiceOf(rows[i]) : i \in DOMAIN rows} \ {<<>>}

\* invoice_map[invoice]: the invoice's rows, in input order
RowsOf(rows, invoice) == SelectSeq(rows, LAMBDA r : InvoiceOf(r) = invoice)

RECURSIVE SummaryOf(_)
\* summary_row after the grouping loop: the last summary row that parses
SummaryOf(rows) ==
    IF rows = <<>> THEN None
    ELSE LET last == rows[Len(rows)] IN
         IF InvoiceOf(last) = <<>> /\ _parse_summary_row(last) # None
         THEN _parse_summary_row(last)
         ELSE SummaryOf(SubSeq(rows, 1, Len(rows) - 1))

-----------------------------------------------------------------------------
(* resolve_converge_current *)

\* auth = (r.get("Auth Message") or "").strip().upper()
AuthOf(r) == Upper(Strip(OrEmpty(Get(r, "Auth Message"))))

\* auth_messages: the set of the invoice's non-empty messages
AuthMessages(rows) == {AuthOf(rows[i]) : i \in DOMAIN rows} \ {<<>>}

\* auth_sequence
AuthSequence(rows) ==
    [i \in DOMAIN rows |-> IF AuthOf(rows[i]) # <<>> THEN AuthOf(rows[i])
                           ELSE <<"NA">>]

APPROVAL == <<"APPROVAL">>
DECLINED_NSF == <<"DECLINED", ":NSF">>
DECLINED_CLOSED == <<"DECLINED", ":CLOSED">>
SUSPECTED_FRAUD == <<"SUSPECTED", " ", "FRAUD">>
WITHDRAWAL_LIMIT == <<"WITHDRAWAL", " ", "LIMIT">>
NA == <<"NA">>

\* next(x for x in it if P(x)): the first element of the iteration that
\* starts with DECLINED
RECURSIVE FirstDeclined(_)
FirstDeclined(it) ==
    IF it = <<>> THEN None
    ELSE IF StartsWith(Head(it), <<"DECLINED">>) THEN Str(Head(it))
    ELSE FirstDeclined(Tail(it))

\* a variant that tests DECLINED:NSF before APPROVAL
determine_auth_status_nsf_first(auth_messages, it) ==
    IF auth_messages = {} THEN NA
    ELSE IF DECLINED_NSF \in auth_messages THEN DECLINED_NSF
    ELSE IF APPROVAL \in auth_messages THEN APPROVAL
    ELSE IF DECLINED_CLOSED \in auth_messages THEN DECLINED_CLOSED
    ELSE IF SUSPECTED_FRAUD \in auth_messages THEN SUSPECTED_FRAUD
    ELSE IF WITHDRAWAL_LIMIT \in auth_messages THEN WITHDRAWAL_LIMIT
    ELSE IF FirstDeclined(it) # None THEN FirstDeclined(it).s
    ELSE it[1]

\* _determine_auth_status(auth_messages); it is the order in which the set
\* auth_messages iterates in this call
_determine_auth_status(auth_messages, it) ==
    IF auth_messages = {} THEN NA
    ELSE IF APPROVAL \in auth_messages THEN APPROVAL
    ELSE IF DECLINED_NSF \in auth_messages THEN DECLINED_NSF
    ELSE IF DECLINED_CLOSED \in auth_messages THEN DECLINED_CLOSED
    ELSE IF SUSPECTED_FRAUD \in auth_messages THEN SUSPECTED_FRAUD
    ELSE IF WITHDRAWAL_LIMIT \in auth_messages THEN WITHDRAWAL_LIMIT
    ELSE IF FirstDeclined(it) # None THEN FirstDeclined(it).s
    ELSE it[1]

\* a variant that compares the messages as written, without upper()
IsDataIssue_as_written(rows) ==
    Cardinality({Strip(OrEmpty(Get(rows[i], "Auth Message"))) : i \in DOMAIN rows}
                \ {<<>>}) > 1

\* is_data_issue = len(auth_messages) > 1
IsDataIssue(rows) == Cardinality(AuthMessages(rows)) > 1

\* resolved[invoice], for the invoice's rows and the iteration order it
ResolvedInvoice(rows, it) ==
    [final_status  |-> _determine_auth_status(AuthMessages(rows), it),
     is_data_issue |-> IsDataIssue(rows),
     auth_messages |-> it,
     auth_sequence |-> AuthSequence(rows),
     row_count     |-> Len(rows),
     raw_rows      |-> rows]

\* the iteration orders of every invoice's auth_messages set
BatchIterOrders(rows) ==
    LET keys == InvoiceKeys(rows)
        all == UNION {IterOrders(AuthMessages(RowsOf(rows, k))) : k \in keys}
    IN {f \in [keys -> all] :
          \A k \in keys : f[k] \in IterOrders(AuthMessages(RowsOf(rows, k)))}

\* the value resolve_converge_current returns or the exception it raises
resolve_converge_current(rows, its) ==
    IF validate_csv_columns(rows, REQUIRED_CURRENT_COLUMNS)
    THEN Raise("ValidationError")
    ELSE LET keys == InvoiceKeys(rows)
             resolved == [k \in keys |-> ResolvedInvoice(RowsOf(rows, k), its[k])]
         IN [kind     |-> "return",
             invoices |-> resolved,
             summary  |-> SummaryOf(rows),
             stats    |-> [total_invoices |-> Cardinality(keys),
                           data_inconsistencies |->
                               Cardinality({k \in keys : resolved[k].is_data_issue})]]

-----------------------------------------------------------------------------
(* Inputs: the authorization batch *)

CurrentRow(invoice, auth, sales_count) ==
    ("Invoice Number" :> invoice) @@ ("Auth Message" :> auth)
        @@ ("Sales Count" :> sales_count)

InvoiceInputs == {Str(<<"INV1">>), Str(<<" ", "INV1", " ">>), Str(<<"INV2">>)}

AuthInputs ==
    {Str(<<"APPROVAL">>), Str(<<" ", "approval">>),
     Str(<<"DECLINED", ":NSF">>), Str(<<"DECLINED", ":CLOSED">>),
     Str(<<"SUSPECTED", " ", "FRAUD">>), Str(<<"WITHDRAWAL", " ", "LIMIT">>),
     Str(<<"DECLINED">>), Str(<<"DECLINED", ":EXPIRED">>),
     Str(<<"CALL AUTH CENTER">>), Str(<<"PICK UP CARD">>),
     Str(<<" ">>), None}

CurrentRowInputs ==
    {CurrentRow(i, a, Str(<<>>)) : i \in InvoiceInputs, a \in AuthInputs}
    \cup {CurrentRow(Str(<<>>), Str(<<>>), Str(<<"2">>)),
          CurrentRow(None, None, Str(<<>>))}

-----------------------------------------------------------------------------
(* resolve_converge_settled *)

\* normalized_row
NormalizedRow(row) ==
    [invoice            |-> InvoiceOf(row),
     transaction_type   |-> Upper(Strip(OrEmpty(Get(row, "Original Transaction Type")))),
     transaction_status |-> Upper(Strip(OrEmpty(Get(row, "Transaction Status")))),
     amount             |-> _safe_float(Get(row, "Original Amount")),
     raw                |-> row]

\* invoice_map[invoice]: the invoice's normalized rows, in input order
NormalizedRowsOf(rows, invoice) ==
    LET own == RowsOf(rows, invoice) IN [i \in DOMAIN own |-> NormalizedRow(own[i])]

SaleRows(nrows) == SelectSeq(nrows, LAMBDA r : r.transaction_type = <<"SALE">>)
ReturnRows(nrows) == SelectSeq(nrows, LAMBDA r : r.transaction_type = <<"RETURN">>)
OtherRows(nrows) ==
    SelectSeq(nrows, LAMBDA r : r.transaction_type \notin {<<"SALE">>, <<"RETURN">>, <<>>})

\* a variant that calls an invoice settled as soon as it has any row
Settled_any_row(nrows) == Len(nrows) > 0

\* settled = sale_count > 0
Settled(nrows) == Len(SaleRows(nrows)) > 0

RECURSIVE SumAmounts(_)
\* sum(r.get("amount") or 0 for r in rows)
SumAmounts(nrows) ==
    IF nrows = <<>> THEN 0
    ELSE (IF Head(nrows).amount = None THEN 0 ELSE Head(nrows).amount.v)
         + SumAmounts(Tail(nrows))

\* other_types
OtherTypes(nrows) ==
    {OtherRows(nrows)[i].transaction_type : i \in DOMAIN OtherRows(nrows)}

Reason(tag, count, types) == [tag |-> tag, count |-> count, types |-> types]

\* a variant whose RETURN_WITHOUT_SALE branch does not set the flag
HasAnomaly_no_return_test(nrows) ==
    Len(SaleRows(nrows)) > 1 \/ OtherRows(nrows) # <<>>

\* has_anomaly: set to True in each of the three anomaly branches
HasAnomaly(nrows) ==
    \/ Len(SaleRows(nrows)) > 1
    \/ Len(SaleRows(nrows)) = 0 /\ Len(ReturnRows(nrows)) > 0
    \/ OtherRows(nrows) # <<>>

\* anomaly_reasons, appended to in the same three branches; it is the order
\* in which the set other_types prints
AnomalyReasons(nrows, it) ==
    LET sale_count == Len(SaleRows(nrows))
        return_count == Len(ReturnRows(nrows))
    IN (IF sale_count > 1
        THEN <<Reason("MULTIPLE_SALES", sale_count, <<>>)>> ELSE <<>>)
       \o (IF sale_count = 0 /\ return_count > 0
           THEN <<Reason("RETURN_WITHOUT_SALE", 0, <<>>)>> ELSE <<>>)
       \o (IF OtherRows(nrows) # <<>>
           THEN <<Reason("NON_STANDARD_TYPES", 0, it)>> ELSE <<>>)

\* resolved_invoices[invoice]
ResolvedSettlement(nrows, it) ==
    LET sale_amount == SumAmounts(SaleRows(nrows))
        return_amount == SumAmounts(ReturnRows(nrows))
    IN [settled         |-> Settled(nrows),
        sale_count      |-> Len(SaleRows(nrows)),
        return_count    |-> Len(ReturnRows(nrows)),
        other_count     |-> Len(OtherRows(nrows)),
        sale_amount     |-> sale_amount,
        return_amount   |-> return_amount,
        net_amount      |-> sale_amount - return_amount,
        has_anomaly     |-> HasAnomaly(nrows),
        anomaly_reasons |-> AnomalyReasons(nrows, it),
        raw_rows        |-> nrows]

\* the orders in which every invoice's other_types set can print
SettledIterOrders(rows) ==
    LET keys == InvoiceKeys(rows)
        all == UNION {IterOrders(OtherTypes(NormalizedRowsOf(rows, k))) : k \in keys}
    IN {f \in [keys -> all] :
          \A k \in keys : f[k] \in IterOrders(OtherTypes(NormalizedRowsOf(rows, k)))}

\* the value resolve_converge_settled returns or the exception it raises;
\* nothing in it catches what _safe_float lets out
resolve_converge_settled(rows, its) ==
    IF validate_csv_columns(rows, REQUIRED_SETTLED_COLUMNS)
    THEN Raise("ValidationError")
    ELSE IF \E i \in DOMAIN rows :
                InvoiceOf(rows[i]) # <<>> /\ NormalizedRow(rows[i]).amount = ValueError
    THEN Raise("ValueError")
    ELSE LET keys == InvoiceKeys(rows)
             resolved == [k \in keys |->
                             ResolvedSettlement(NormalizedRowsOf(rows, k), its[k])]
         IN [kind          |-> "return",
             invoice_level |-> resolved,
             summary       |-> SummaryOf(rows),
             stats |-> [total_invoices |-> Cardinality(keys),
                        settled_count  |-> Cardinality({k \in keys : resolved[k].settled}),
                        anomaly_count  |-> Cardinality({k \in keys : resolved[k].has_anomaly}),
                        multiple_sales_count |->
                            Cardinality({k \in keys : resolved[k].sale_count > 1})]]

-----------------------------------------------------------------------------
(* Inputs: the settlement batch *)

SettledRow(invoice, type, amount, sales_count) ==
    ("Invoice Number" :> invoice) @@ ("Original Transaction Type" :> type)
        @@ ("Transaction Status" :> Str(<<"STL">>)) @@ ("Original Amount" :> amount)
        @@ ("Sales Count" :> sales_count)

SettledInvoiceInputs == {Str(<<"INV1">>), Str(<<" ", "INV2", " ">>)}

TypeInputs == {Str(<<"SALE">>), Str(<<" ", "sale">>), Str(<<"RETURN">>),
               Str(<<"VOID">>), Str(<<"FORCE">>), None}

AmountInputs == {Str(<<"50">>), Str(<<"$", "1", ",", "050", ".", "01">>),
                 Str(<<"N/A">>), Str(<<>>)}

SettledRowInputs ==
    {SettledRow(i, t, a, Str(<<>>)) :
        i \in SettledInvoiceInputs, t \in TypeInputs, a \in AmountInputs}
    \cup {SettledRow(Str(<<>>), Str(<<>>), Str(<<>>), Str(<<"2">>))}

-----------------------------------------------------------------------------
(* classify_orders: helpers *)

EmptyDict == [len |-> 0]

\* d.get(key, default)
DictGet(d, key, default) == IF key \in DOMAIN d THEN d[key] ELSE default

\* Python truth of a str-or-None value
Truthy(x) == x # None /\ x # Str(<<>>)

(* abs(float(settled_amount) - float(order_total)) > 0.01 on IEEE doubles,  *)
(* for amounts of whole cents from 1.00 up, given in cents.  float(x) is    *)
(* the double nearest to x: for c cents in the binade [2^e, 2^(e+1)) it     *)
(* lies RoundingError(c) hundredths of an ulp 2^(e-52) above c/100.  The    *)
(* subtraction of two doubles a cent apart is exact, and the double 0.01    *)
(* is less than a hundredth of an ulp above 0.01, so a difference of one    *)
(* cent exceeds it exactly when the two rounding errors, in the ulp of the  *)
(* smaller amount, differ by a hundredth or more in its favour.             *)
RECURSIVE Binade(_)
Binade(c) == IF c < 200 THEN 0 ELSE 1 + Binade(c \div 2)

RECURSIVE Pow2Mod100(_)
Pow2Mod100(k) == IF k = 0 THEN 1 ELSE (2 * Pow2Mod100(k - 1)) % 100

RoundingError(c) ==
    LET r == ((c % 100) * Pow2Mod100(52 - Binade(c))) % 100
    IN IF r > 50 THEN 100 - r ELSE 0 - r

Abs(n) == IF n < 0 THEN 0 - n ELSE n

\* diff > 0.01
ExceedsTolerance(settled, total) ==
    IF Abs(settled - total) # 1 THEN Abs(settled - total) > 1
    ELSE LET hi == IF settled > total THEN settled ELSE total
             lo == IF settled > total THEN total ELSE settled
         IN RoundingError(hi) * (IF Binade(hi) > Binade(lo) THEN 2 ELSE 1)
                - RoundingError(lo) >= 1

ACTION_REQUIRED == "ACTION_REQUIRED"
SUCCESS == "SUCCESS"
FAILED == "FAILED"
ORDER_REJECTED == "ORDER REJECTED"

\* an outcome of the priority chain: the state and reason, the statistics
\* counters it adds to, what it appends to settlement_amount_mismatches and
\* to converge_data_inconsistencies
Outcome(state, reason, stat) ==
    [state |-> state, action_reason |-> reason, stats |-> <<stat>>,
     mismatches |-> <<>>, inconsistencies |-> <<>>]

\* a variant that flags the mismatch without recording it
validate_amounts_unrecorded(order_id, order_total, settled_amount, success_stat_key) ==
    IF order_total # None /\ settled_amount # None
       /\ ExceedsTolerance(settled_amount.v, order_total.v)
    THEN Outcome(ACTION_REQUIRED, Str(<<"SETTLEMENT_AMOUNT_MISMATCH">>),
                 "settlement_amount_mismatch")
    ELSE Outcome(SUCCESS, None, success_stat_key)

_validate_amounts(order_id, order_total, settled_amount, success_stat_key) ==
    IF order_total # None /\ settled_amount # None
    THEN IF ExceedsTolerance(settled_amount.v, order_total.v)
         THEN [Outcome(ACTION_REQUIRED, Str(<<"SETTLEMENT_AMOUNT_MISMATCH">>),
                       "settlement_amount_mismatch")
                  EXCEPT !.mismatches =
                      <<[order_id       |-> order_id,
                         order_total    |-> order_total.v,
                         settled_amount |-> settled_amount.v,
                         difference     |-> settled_amount.v - order_total.v]>>]
         ELSE Outcome(SUCCESS, None, success_stat_key)
    ELSE Outcome(SUCCESS, None, success_stat_key)

\* what the iteration reads for order o
ConvergeStatus(o) == DictGet(o.converge_info, "final_status", NA)
\* a variant that never sees the data issue flag
IsDataIssueOf_unread(o) == FALSE

IsDataIssueOf(o) == DictGet(o.converge_info, "is_data_issue", FALSE)
\* a variant that counts a settlement only next to an approved authorization
IsSettled_if_approved(o) ==
    DictGet(o.settled_info, "settled", FALSE) /\ ConvergeStatus(o) = APPROVAL

IsSettled(o) == DictGet(o.settled_info, "settled", FALSE)
SettledAmount(o) ==
    IF "net_amount" \in DOMAIN o.settled_info
    THEN Num(o.settled_info.net_amount) ELSE None
\* a variant that never sees an anomaly
HasSettlementAnomaly_unread(o) == FALSE

HasSettlementAnomaly(o) == DictGet(o.settled_info, "has_anomaly", FALSE)

\* a variant of priority 4 that leaves shipped orders to priority 5
AsnNotSettled_unless_shipped(o) ==
    o.has_asn /\ ~IsSettled(o) /\ o.fulfillment_status # Str(<<"SHIPPED">>)

\* a variant without priority 4
AsnNotSettled_skipped(o) == FALSE

\* the condition of priority 4
AsnNotSettled(o) == o.has_asn /\ ~IsSettled(o)

\* the if/elif chain of priorities 1 to 12
PriorityChain(o) ==
    LET cxp_status == o.fulfillment_status
        cxp_db_status == o.order_state
        converge_status == ConvergeStatus(o)
        is_settled == IsSettled(o)
    IN
    IF cxp_db_status = Str(<<"ERROR">>)
    THEN Outcome(ACTION_REQUIRED, Str(<<"CXP_ERROR_STATE">>), "cxp_error_state")
    ELSE IF /\ cxp_db_status = Str(<<"SUCCESS">>)
            /\ converge_status = NA
            /\ ~is_settled
            /\ cxp_status \in {Str(<<"ORDERED">>), Str(<<"CLAIMED">>)}
    THEN Outcome(ACTION_REQUIRED, Str(<<"NO_PAYMENT_DATA">>), "no_payment_data")
    ELSE IF cxp_db_status = Str(<<"PAYMENT_CANCELLED">>)
    THEN Outcome(FAILED, None, "payment_cancelled")
    ELSE IF AsnNotSettled(o)
    THEN Outcome(ACTION_REQUIRED, Str(<<"ASN_NOT_SETTLED">>), "asn_not_settled")
    ELSE IF cxp_status = Str(<<"SHIPPED">>) /\ ~is_settled
    THEN Outcome(ACTION_REQUIRED, Str(<<"SHIPPED_NOT_SETTLED">>), "shipped_not_settled")
    ELSE IF cxp_status = Str(<<"REJECTED">>) /\ converge_status = APPROVAL
    THEN Outcome(ORDER_REJECTED, None, "order_rejected")
    ELSE IF ~Truthy(cxp_status) /\ converge_status = APPROVAL
    THEN Outcome(ACTION_REQUIRED, Str(<<"PAYMENT_SUCCESS_ORDER_FAILED">>),
                 "payment_success_order_failed")
    ELSE IF HasSettlementAnomaly(o)
    THEN Outcome(ACTION_REQUIRED, Str(<<"SETTLEMENT_ANOMALY">>), "settlement_anomaly")
    ELSE IF (cxp_status = Str(<<"SHIPPED">>) \/ o.has_asn) /\ is_settled
    THEN _validate_amounts(o.process_number, o.order_total, SettledAmount(o),
                           "success_shipped_settled")
    ELSE IF /\ cxp_status \in {Str(<<"ORDERED">>), Str(<<"CLAIMED">>)}
            /\ converge_status = APPROVAL
    THEN IF IsDataIssueOf(o)
         THEN [Outcome(SUCCESS, Str(<<"CONVERGE_DATA_INCONSISTENCY">>),
                       "verification_needed")
                  EXCEPT !.inconsistencies = <<o.process_number>>]
         ELSE _validate_amounts(o.process_number, o.order_total, SettledAmount(o),
                                "success_ordered_approved")
    ELSE IF \/ Contains(converge_status, <<"DECLINED">>)
            \/ converge_status = SUSPECTED_FRAUD
    THEN Outcome(FAILED, None,
                 IF Contains(converge_status, <<"FRAUD">>) THEN "fraud" ELSE "declined")
    ELSE Outcome(FAILED, None, "failed_other")

\* a variant that never finds a settled order without confirmation
SettledNoAsn_never(o) == FALSE

\* settled_no_asn
SettledNoAsn(o) ==
    IsSettled(o) /\ ~o.has_asn /\ o.fulfillment_status = Str(<<"SHIPPED">>)

\* a variant whose SETTLED_NO_ASN block overrides whatever the chain decided
Classify_override_any_state(o) ==
    LET chain == PriorityChain(o) IN
    IF SettledNoAsn(o)
    THEN [chain EXCEPT !.state = ACTION_REQUIRED,
                       !.action_reason = Str(<<"SETTLED_NO_ASN">>),
                       !.stats = @ \o <<"settled_no_asn">>]
    ELSE chain

\* a variant whose SETTLED_NO_ASN block also overrides FAILED
Classify_override_failed(o) ==
    LET chain == PriorityChain(o) IN
    IF SettledNoAsn(o) /\ chain.state \in {SUCCESS, FAILED}
    THEN [chain EXCEPT !.state = ACTION_REQUIRED,
                       !.action_reason = Str(<<"SETTLED_NO_ASN">>),
                       !.stats = @ \o <<"settled_no_asn">>]
    ELSE chain

\* a variant whose SETTLED_NO_ASN block sets the state only
Classify_downgrade_unexplained(o) ==
    LET chain == PriorityChain(o) IN
    IF SettledNoAsn(o) /\ chain.state = SUCCESS
    THEN [chain EXCEPT !.state = ACTION_REQUIRED,
                       !.stats = @ \o <<"settled_no_asn">>]
    ELSE chain

\* the chain followed by the SETTLED_NO_ASN block
Classify(o) ==
    LET chain == PriorityChain(o) IN
    IF SettledNoAsn(o) /\ chain.state = SUCCESS
    THEN [chain EXCEPT !.state = ACTION_REQUIRED,
                       !.action_reason = Str(<<"SETTLED_NO_ASN">>),
                       !.stats = @ \o <<"settled_no_asn">>]
    ELSE chain

RECURSIVE AddStats(_, _)
\* classification_stats[key] += 1 for each key
AddStats(stats, keys) ==
    IF keys = <<>> THEN stats
    ELSE AddStats([stats EXCEPT ![Head(keys)] = @ + 1], Tail(keys))

StatKeys == {"cxp_error_state", "no_payment_data", "payment_cancelled",
             "asn_not_settled", "shipped_not_settled", "declined", "fraud",
             "payment_success_order_failed", "settlement_anomaly",
             "settlement_amount_mismatch", "settled_no_asn",
             "success_shipped_settled", "success_ordered_approved",
             "verification_needed", "failed_other", "order_rejected"}

\* classification_stats as first built, for n orders
InitialStats(n) == [k \in StatKeys \cup {"total"} |-> IF k = "total" THEN n ELSE 0]

-----------------------------------------------------------------------------
(* classify_orders: the loop, the retry pass and the return *)

NoOrder == [process_number |-> 0]

ClassifierIdle ==
    /\ pc = "idle"
    /\ order = NoOrder
    /\ orders_result = <<>>
    /\ successful_orders = <<>>
    /\ rejected_orders = <<>>
    /\ failed_orders = {}
    /\ action_required_orders = <<>>
    /\ retry_success_orders = <<>>
    /\ converge_data_inconsistencies = <<>>
    /\ settlement_amount_mismatches = <<>>
    /\ settled_no_asn_orders = <<>>
    /\ classification_stats = InitialStats(0)
    /\ customer_history = <<>>

\* no call with arguments of its own, no run of the controller
ControllerIdle ==
    /\ order_totals = Pending
    /\ asn_process_numbers = Pending
    /\ rerun_result = Pending
    /\ order_items = <<>>
    /\ sales_orders = <<>>
    /\ response = Pending

\* customer_history[customer_key].append(attempt), the dict in insertion order
AppendAttempt(history, customer_key, attempt) ==
    IF \E i \in DOMAIN history : history[i].customer = customer_key
    THEN [i \in DOMAIN history |->
             IF history[i].customer = customer_key
             THEN [history[i] EXCEPT !.attempts = Append(@, attempt)]
             ELSE history[i]]
    ELSE Append(history, [customer |-> customer_key, attempts |-> <<attempt>>])

\* a variant that files the orders without identity under one key
CustomerKey_or_unknown(o) ==
    IF Truthy(o.notif_email) THEN o.notif_email
    ELSE IF Truthy(o.notify_mobile_no) THEN o.notify_mobile_no
    ELSE Str(<<"UNKNOWN">>)

\* customer_key = email or phone
CustomerKey(o) ==
    IF Truthy(o.notif_email) THEN o.notif_email ELSE o.notify_mobile_no

\* one iteration of the first pass, for order o with what it looks up
ClassifyStep(o) ==
    \E out \in {Classify(o)} :
    LET order_id == o.process_number
        customer_key == CustomerKey(o)
    IN
    /\ order' = o
    /\ orders_result' = Append(orders_result,
                               [state            |-> out.state,
                                action_reason    |-> out.action_reason,
                                is_retry_success |-> FALSE,
                                order_date       |-> o.order_date,
                                email            |-> o.notif_email,
                                phone            |-> o.notify_mobile_no])
    /\ classification_stats' = AddStats(classification_stats, out.stats)
    /\ settlement_amount_mismatches' = settlement_amount_mismatches \o out.mismatches
    /\ converge_data_inconsistencies' =
           converge_data_inconsistencies \o out.inconsistencies
    /\ successful_orders' = IF out.state = "SUCCESS"
                            THEN Append(successful_orders, order_id)
                            ELSE successful_orders
    /\ failed_orders' = IF out.state = "FAILED"
                        THEN failed_orders \cup {order_id}
                        ELSE failed_orders
    /\ action_required_orders' = IF out.state = "ACTION_REQUIRED"
                                 THEN Append(action_required_orders, order_id)
                                 ELSE action_required_orders
    /\ rejected_orders' = IF out.state = "REJECTES"
                          THEN Append(rejected_orders, order_id)
                          ELSE rejected_orders
    /\ settled_no_asn_orders' = IF SettledNoAsn(o)
                                THEN Append(settled_no_asn_orders, order_id)
                                ELSE settled_no_asn_orders
    /\ customer_history' =
           IF Truthy(customer_key) /\ o.order_date # None
           THEN AppendAttempt(customer_history, customer_key,
                              [order_id        |-> order_id,
                               state           |-> out.state,
                               order_date      |-> o.order_date,
                               converge_status |-> ConvergeStatus(o)])
           ELSE customer_history

\* sorted(attempts, key=order_date): stable
RECURSIVE SortedAttempts(_)
SortedAttempts(attempts) ==
    IF attempts = <<>> THEN <<>>
    ELSE LET n == Len(attempts)
             a == attempts[n]
             front == SortedAttempts(SubSeq(attempts, 1, n - 1))
         IN SelectSeq(front, LAMBDA x : x.order_date.v <= a.order_date.v)
            \o <<a>>
            \o SelectSeq(front, LAMBDA x : x.order_date.v > a.order_date.v)

HoursPerDay == 24

\* (next_dt - cur_dt).days, dates in hours
DiffDays(cur_dt, next_dt) ==
    IF next_dt >= cur_dt THEN (next_dt - cur_dt) \div HoursPerDay
    ELSE 0 - (((cur_dt - next_dt) + HoursPerDay - 1) \div HoursPerDay)

RetryWindowDays == 7

\* a variant that searches all earlier attempts for the latest failed one
RECURSIVE RetryLinks_any_earlier(_, _)
RetryLinks_any_earlier(sorted_attempts, i) ==
    IF i >= Len(sorted_attempts) THEN <<>>
    ELSE LET next_attempt == sorted_attempts[i + 1]
             failed == {k \in 1..i :
                          /\ sorted_attempts[k].state \in {"FAILED", "ACTION_REQUIRED"}
                          /\ 0 <= DiffDays(sorted_attempts[k].order_date.v,
                                           next_attempt.order_date.v)
                          /\ DiffDays(sorted_attempts[k].order_date.v,
                                      next_attempt.order_date.v) <= RetryWindowDays}
         IN (IF next_attempt.state = "SUCCESS" /\ failed # {}
             THEN <<[order_id                |-> next_attempt.order_id,
                     previous_failed_attempt |->
                         sorted_attempts[CHOOSE k \in failed :
                                             \A l \in failed : l <= k].order_id]>>
             ELSE <<>>)
            \o RetryLinks_any_earlier(sorted_attempts, i + 1)

\* a variant that links whatever attempt follows a failed one
RECURSIVE RetryLinks_any_next(_, _)
RetryLinks_any_next(sorted_attempts, i) ==
    IF i >= Len(sorted_attempts) THEN <<>>
    ELSE LET current == sorted_attempts[i]
             next_attempt == sorted_attempts[i + 1]
             diff_days == DiffDays(current.order_date.v, next_attempt.order_date.v)
         IN (IF /\ current.state \in {"FAILED", "ACTION_REQUIRED"}
                /\ 0 <= diff_days /\ diff_days <= RetryWindowDays
             THEN <<[order_id                |-> next_attempt.order_id,
                     previous_failed_attempt |-> current.order_id]>>
             ELSE <<>>)
            \o RetryLinks_any_next(sorted_attempts, i + 1)

\* the retries found among one customer's sorted attempts, from index i on
RECURSIVE RetryLinks(_, _)
RetryLinks(sorted_attempts, i) ==
    IF i >= Len(sorted_attempts) THEN <<>>
    ELSE LET current == sorted_attempts[i]
             next_attempt == sorted_attempts[i + 1]
             diff_days == DiffDays(current.order_date.v, next_attempt.order_date.v)
         IN (IF /\ current.state \in {"FAILED", "ACTION_REQUIRED"}
                /\ next_attempt.state = "SUCCESS"
                /\ 0 <= diff_days /\ diff_days <= RetryWindowDays
             THEN <<[order_id                |-> next_attempt.order_id,
                     previous_failed_attempt |-> current.order_id]>>
             ELSE <<>>)
            \o RetryLinks(sorted_attempts, i + 1)

\* the second pass over customer_history.items()
RECURSIVE RetryPass(_)
RetryPass(history) ==
    IF history = <<>> THEN <<>>
    ELSE (IF Len(Head(history).attempts) < 2 THEN <<>>
          ELSE RetryLinks(SortedAttempts(Head(history).attempts), 1))
         \o RetryPass(Tail(history))

\* the retry pass and the return
ReturnStep ==
    LET links == RetryPass(customer_history)
        LinkOf(oid) == CHOOSE i \in DOMAIN links : links[i].order_id = oid
    IN
    /\ orders_result' =
           [oid \in DOMAIN orders_result |->
               IF \E i \in DOMAIN links : links[i].order_id = oid
               THEN [k \in DOMAIN orders_result[oid] \cup {"previous_failed_attempt"} |->
                        IF k = "is_retry_success" THEN TRUE
                        ELSE IF k = "previous_failed_attempt"
                        THEN links[LinkOf(oid)].previous_failed_attempt
                        ELSE orders_result[oid][k]]
               ELSE orders_result[oid]]
    /\ retry_success_orders' =
           retry_success_orders \o [i \in DOMAIN links |-> links[i].order_id]
    /\ pc' = "done"
    /\ UNCHANGED <<order, successful_orders, rejected_orders, failed_orders,
                   action_required_orders, converge_data_inconsistencies,
                   settlement_amount_mismatches, settled_no_asn_orders,
                   classification_stats, customer_history>>

-----------------------------------------------------------------------------
(* Inputs of the classifier *)

MaxOrders == 1

OrderStateInputs ==
    {Str(<<"SUCCESS">>), Str(<<"ERROR">>), Str(<<"PAYMENT_CANCELLED">>), None}

\* CLAIMED, which the classifier tests together with ORDERED, is drawn in
\* GivenOrderInputs
FulfillmentInputs ==
    {Str(<<"SHIPPED">>), Str(<<"ORDERED">>), Str(<<"REJECTED">>), None}

\* entries of resolve_converge_current's invoices, as far as they are read
ConvergeInfoInputs ==
    {EmptyDict,
     [final_status |-> APPROVAL, is_data_issue |-> FALSE],
     [final_status |-> APPROVAL, is_data_issue |-> TRUE],
     [final_status |-> DECLINED_NSF, is_data_issue |-> FALSE],
     [final_status |-> SUSPECTED_FRAUD, is_data_issue |-> FALSE],
     [final_status |-> <<"PICK", " ", "UP", " ", "CARD">>, is_data_issue |-> FALSE]}

\* entries of resolve_converge_settled's invoice_level, as far as they are
\* read: one sale, one sale a cent above, one two cents above, two sales, a
\* return without sale
SettledInfoInputs ==
    {EmptyDict,
     [settled |-> TRUE, net_amount |-> 10000, has_anomaly |-> FALSE],
     [settled |-> TRUE, net_amount |-> 10001, has_anomaly |-> FALSE],
     [settled |-> TRUE, net_amount |-> 10002, has_anomaly |-> FALSE],
     [settled |-> TRUE, net_amount |-> 20000, has_anomaly |-> TRUE],
     [settled |-> FALSE, net_amount |-> 0 - 5000, has_anomaly |-> TRUE]}

OrderTotalInputs == {None, Num(10000)}

\* the orders without customer identity, numbered process_number
OrderInputs(process_number) ==
    [process_number     : {process_number},
     notif_email        : {None},
     notify_mobile_no   : {None},
     order_date         : {None},
     fulfillment_status : FulfillmentInputs,
     order_state        : OrderStateInputs,
     converge_info      : ConvergeInfoInputs,
     settled_info       : SettledInfoInputs,
     has_asn            : BOOLEAN,
     order_total        : OrderTotalInputs]

-----------------------------------------------------------------------------
(* Actions: classify_orders *)

ClassifyOrder ==
    /\ pc = "loop"
    /\ Len(orders_result) < classification_stats["total"]
    /\ \E o \in OrderInputs(Len(orders_result) + 1) : ClassifyStep(o)
    /\ UNCHANGED <<pc, retry_success_orders, resolverVars, controllerVars>>

Return ==
    /\ pc = "loop"
    /\ Len(orders_result) = classification_stats["total"]
    /\ ReturnStep
    /\ UNCHANGED <<resolverVars, controllerVars>>

InitClassify ==
    /\ converge_rows = <<>>
    /\ current_result = Pending
    /\ permuted_rows = <<>>
    /\ permuted_result = Pending
    /\ settled_rows = <<>>
    /\ settled_result = Pending
    /\ pc = "loop"
    /\ order = NoOrder
    /\ orders_result = <<>>
    /\ successful_orders = <<>>
    /\ rejected_orders = <<>>
    /\ failed_orders = {}
    /\ action_required_orders = <<>>
    /\ retry_success_orders = <<>>
    /\ converge_data_inconsistencies = <<>>
    /\ settlement_amount_mismatches = <<>>
    /\ settled_no_asn_orders = <<>>
    /\ classification_stats \in {InitialStats(n) : n \in 0..MaxOrders}
    /\ customer_history = <<>>
    /\ ControllerIdle

NextClassify == ClassifyOrder \/ Return

SpecClassify == InitClassify /\ [][NextClassify]_vars

-----------------------------------------------------------------------------
(* Actions: classify_orders on the attempts of customers *)

MaxAttempts == 2

EmailInputs == {None, Str(<<"a@x">>)}

PhoneInputs == {None, Str(<<"555">>)}

\* order dates as hours since the first: the same hour, 7 days, 7 days and a
\* half, 8 days later; None where the order has no date
DateInputs == {None, Num(0), Num(168), Num(180), Num(192)}

\* an order that ends FAILED, one that ends ACTION_REQUIRED, one that ends
\* SUCCESS, and a shipped and settled one without shipment confirmation, which
\* the SETTLED_NO_ASN block takes from SUCCESS to ACTION_REQUIRED
AttemptKinds ==
    {[fulfillment_status |-> None, order_state |-> Str(<<"PAYMENT_CANCELLED">>),
      converge_info |-> EmptyDict, settled_info |-> EmptyDict],
     [fulfillment_status |-> None, order_state |-> Str(<<"ERROR">>),
      converge_info |-> EmptyDict, settled_info |-> EmptyDict],
     [fulfillment_status |-> Str(<<"ORDERED">>), order_state |-> Str(<<"SUCCESS">>),
      converge_info |-> [final_status |-> APPROVAL, is_data_issue |-> FALSE],
      settled_info |-> EmptyDict],
     [fulfillment_status |-> Str(<<"SHIPPED">>), order_state |-> Str(<<"SUCCESS">>),
      converge_info |-> [final_status |-> APPROVAL, is_data_issue |-> FALSE],
      settled_info |-> [settled |-> TRUE, net_amount |-> 10000,
                        has_anomaly |-> FALSE]]}

AttemptInputs(process_number) ==
    {[process_number     |-> process_number,
      notif_email        |-> e,
      notify_mobile_no   |-> ph,
      order_date         |-> d,
      fulfillment_status |-> k.fulfillment_status,
      order_state        |-> k.order_state,
      converge_info      |-> k.converge_info,
      settled_info       |-> k.settled_info,
      has_asn            |-> FALSE,
      order_total        |-> None] :
        e \in EmailInputs, ph \in PhoneInputs, d \in DateInputs, k \in AttemptKinds}

ClassifyAttempt ==
    /\ pc = "loop"
    /\ Len(orders_result) < classification_stats["total"]
    /\ \E o \in AttemptInputs(Len(orders_result) + 1) : ClassifyStep(o)
    /\ UNCHANGED <<pc, retry_success_orders, resolverVars, controllerVars>>

InitRetry ==
    /\ converge_rows = <<>>
    /\ current_result = Pending
    /\ permuted_rows = <<>>
    /\ permuted_result = Pending
    /\ settled_rows = <<>>
    /\ settled_result = Pending
    /\ pc = "loop"
    /\ order = NoOrder
    /\ orders_result = <<>>
    /\ successful_orders = <<>>
    /\ rejected_orders = <<>>
    /\ failed_orders = {}
    /\ action_required_orders = <<>>
    /\ retry_success_orders = <<>>
    /\ converge_data_inconsistencies = <<>>
    /\ settlement_amount_mismatches = <<>>
    /\ settled_no_asn_orders = <<>>
    /\ classification_stats \in {InitialStats(n) : n \in 0..MaxAttempts}
    /\ customer_history = <<>>
    /\ ControllerIdle

NextRetry == ClassifyAttempt \/ Return

\* classify_orders on up to MaxAttempts orders with customer identity and date
SpecRetry == InitRetry /\ [][NextRetry]_vars

-----------------------------------------------------------------------------
(* Actions: classify_orders on a sequence of attempts of one customer *)

MaxSequence == 4

\* attempts of customer a@x, in any order of arrival, with order dates a day
\* apart, as hours since the first
SequenceInputs(process_number) ==
    {[process_number     |-> process_number,
      notif_email        |-> Str(<<"a@x">>),
      notify_mobile_no   |-> None,
      order_date         |-> d,
      fulfillment_status |-> k.fulfillment_status,
      order_state        |-> k.order_state,
      converge_info      |-> k.converge_info,
      settled_info       |-> EmptyDict,
      has_asn            |-> FALSE,
      order_total        |-> None] :
        d \in {Num(0), Num(24), Num(48)}, k \in {a \in AttemptKinds : a.settled_info = EmptyDict}}

ClassifyInSequence ==
    /\ pc = "loop"
    /\ Len(orders_result) < classification_stats["total"]
    /\ \E o \in SequenceInputs(Len(orders_result) + 1) : ClassifyStep(o)
    /\ UNCHANGED <<pc, retry_success_orders, resolverVars, controllerVars>>

InitSequence ==
    /\ converge_rows = <<>>
    /\ current_result = Pending
    /\ permuted_rows = <<>>
    /\ permuted_result = Pending
    /\ settled_rows = <<>>
    /\ settled_result = Pending
    /\ pc = "loop"
    /\ order = NoOrder
    /\ orders_result = <<>>
    /\ successful_orders = <<>>
    /\ rejected_orders = <<>>
    /\ failed_orders = {}
    /\ action_required_orders = <<>>
    /\ retry_success_orders = <<>>
    /\ converge_data_inconsistencies = <<>>
    /\ settlement_amount_mismatches = <<>>
    /\ settled_no_asn_orders = <<>>
    /\ classification_stats \in {InitialStats(n) : n \in 0..MaxSequence}
    /\ customer_history = <<>>
    /\ ControllerIdle

NextSequence == ClassifyInSequence \/ Return

\* classify_orders on up to MaxSequence orders of one customer
SpecSequence == InitSequence /\ [][NextSequence]_vars

-----------------------------------------------------------------------------
(* Actions: classify_orders given order_totals and asn_process_numbers *)

List(items) == [t |-> "list", v |-> items]
Dict(entries) == [t |-> "dict", v |-> entries]
Returned(v) == [kind |-> "return", v |-> v]

\* Python truth of a list, a dict or None
NonEmpty(x) == x # None /\ DOMAIN x.v # {}

\* a variant that builds the set of whatever it is given
AsnSet_unguarded(asn) ==
    IF asn = None THEN Raise("TypeError")
    ELSE Returned({asn.v[i] : i \in DOMAIN asn.v})

\* asn_set
AsnSet(asn) ==
    IF NonEmpty(asn) THEN Returned({asn.v[i] : i \in DOMAIN asn.v})
    ELSE Returned({})

\* {item["process_number"]: item.get("order_total") for item in items
\*  if item.get("order_total") is not None}: a later row replaces an earlier
RECURSIVE TotalsOfItems(_)
TotalsOfItems(items) ==
    IF items = <<>> THEN <<>>
    ELSE LET n == Len(items)
             item == items[n]
             front == TotalsOfItems(SubSeq(items, 1, n - 1))
         IN IF item.order_total # None
            THEN [k \in DOMAIN front \cup {item.process_number} |->
                     IF k = item.process_number THEN item.order_total ELSE front[k]]
            ELSE front

\* order_totals_map
OrderTotalsMap(totals) ==
    IF NonEmpty(totals)
    THEN IF totals.t = "list" THEN Returned(TotalsOfItems(totals.v))
         ELSE IF totals.t = "dict"
         THEN Returned([k \in {j \in DOMAIN totals.v : totals.v[j] # None} |->
                           totals.v[k]])
         ELSE Returned(<<>>)
    ELSE Returned(<<>>)

\* orders of state SUCCESS: shipped, ordered, claimed or without item rows; with and
\* without an approval; unsettled, settled at the total, settled above it
GivenOrderInputs(process_number) ==
    [process_number     : {process_number},
     notif_email        : {None},
     notify_mobile_no   : {None},
     order_date         : {None},
     fulfillment_status : {Str(<<"SHIPPED">>), Str(<<"ORDERED">>),
                           Str(<<"CLAIMED">>), None},
     order_state        : {Str(<<"SUCCESS">>)},
     converge_info      : {EmptyDict,
                           [final_status |-> APPROVAL, is_data_issue |-> FALSE]},
     settled_info       : {EmptyDict,
                           [settled |-> TRUE, net_amount |-> 10000, has_anomaly |-> FALSE],
                           [settled |-> TRUE, net_amount |-> 10002, has_anomaly |-> FALSE]}]

\* the order with what the iteration looks up for it in asn_set and
\* order_totals_map
LookedUp(o, asn_set, order_totals_map) ==
    [k \in DOMAIN o \cup {"has_asn", "order_total"} |->
        IF k = "has_asn" THEN o.process_number \in asn_set
        ELSE IF k = "order_total"
        THEN DictGet(order_totals_map, o.process_number, None)
        ELSE o[k]]

\* the statements before the loop
Setup ==
    /\ pc = "setup"
    /\ pc' = IF \/ AsnSet(asn_process_numbers).kind = "raise"
                \/ OrderTotalsMap(order_totals).kind = "raise"
             THEN "raised" ELSE "loop"
    /\ UNCHANGED <<order, orders_result, successful_orders, rejected_orders,
                   failed_orders, action_required_orders, retry_success_orders,
                   converge_data_inconsistencies, settlement_amount_mismatches,
                   settled_no_asn_orders, classification_stats, customer_history,
                   resolverVars, controllerVars>>

ClassifyGiven ==
    /\ pc = "loop"
    /\ Len(orders_result) < classification_stats["total"]
    /\ \E o \in GivenOrderInputs(Len(orders_result) + 1) :
          ClassifyStep(LookedUp(o, AsnSet(asn_process_numbers).v,
                                OrderTotalsMap(order_totals).v))
    /\ UNCHANGED <<pc, retry_success_orders, resolverVars, controllerVars>>

InitOptional ==
    /\ converge_rows = <<>>
    /\ current_result = Pending
    /\ permuted_rows = <<>>
    /\ permuted_result = Pending
    /\ settled_rows = <<>>
    /\ settled_result = Pending
    /\ pc = "setup"
    /\ order = NoOrder
    /\ orders_result = <<>>
    /\ successful_orders = <<>>
    /\ rejected_orders = <<>>
    /\ failed_orders = {}
    /\ action_required_orders = <<>>
    /\ retry_success_orders = <<>>
    /\ converge_data_inconsistencies = <<>>
    /\ settlement_amount_mismatches = <<>>
    /\ settled_no_asn_orders = <<>>
    /\ classification_stats \in {InitialStats(n) : n \in 0..MaxOrders}
    /\ customer_history = <<>>
    \* order_totals: omitted, a list of rows, or a dict
    /\ order_totals \in
           {None}
           \cup {List(q) : q \in BoundedSeq([process_number : 1..MaxOrders,
                                             order_total    : OrderTotalInputs],
                                            MaxOrders)}
           \cup {Dict(f) : f \in UNION {[D -> OrderTotalInputs] :
                                            D \in SUBSET (1..MaxOrders)}}
    \* asn_process_numbers: omitted, or a list of process numbers
    /\ asn_process_numbers \in
           {None} \cup {List(q) : q \in BoundedSeq(1..MaxOrders, MaxOrders)}
    /\ rerun_result = Pending
    /\ order_items = <<>>
    /\ sales_orders = <<>>
    /\ response = Pending

NextOptional == Setup \/ ClassifyGiven \/ Return

\* classify_orders on up to MaxOrders orders, with order_totals and
\* asn_process_numbers omitted, empty or given
SpecOptional == InitOptional /\ [][NextOptional]_vars

-----------------------------------------------------------------------------
(* Actions: the authorization batch *)

ResolveConvergeCurrent ==
    /\ current_result = Pending
    /\ \E its \in BatchIterOrders(converge_rows) :
          current_result' = resolve_converge_current(converge_rows, its)
    /\ UNCHANGED <<converge_rows, permuted_rows, permuted_result,
                   settled_rows, settled_result, classifierVars, controllerVars>>

\* the rows of a batch in the order p, a permutation of its indices
Reorder(rows, p) == [i \in DOMAIN rows |-> rows[p[i]]]

\* A second call of resolve_converge_current, in a process of its own, on the
\* same rows in any order (the same order included).
ResolvePermuted ==
    /\ current_result # Pending
    /\ permuted_result = Pending
    /\ \E p \in IterOrders(DOMAIN converge_rows) :
         /\ permuted_rows' = Reorder(converge_rows, p)
         /\ \E its \in BatchIterOrders(permuted_rows') :
               permuted_result' = resolve_converge_current(permuted_rows', its)
    /\ UNCHANGED <<converge_rows, current_result, settled_rows, settled_result,
                   classifierVars, controllerVars>>

InitCurrent ==
    /\ converge_rows \in BoundedSeq(CurrentRowInputs, MaxRows)
    /\ current_result = Pending
    /\ permuted_rows = <<>>
    /\ permuted_result = Pending
    /\ settled_rows = <<>>
    /\ settled_result = Pending
    /\ ClassifierIdle
    /\ ControllerIdle

NextCurrent == ResolveConvergeCurrent

\* one call of resolve_converge_current on every bounded batch
SpecCurrent == InitCurrent /\ [][NextCurrent]_vars

-----------------------------------------------------------------------------
(* Actions: the settlement batch *)

ResolveConvergeSettled ==
    /\ settled_result = Pending
    /\ \E its \in SettledIterOrders(settled_rows) :
          settled_result' = resolve_converge_settled(settled_rows, its)
    /\ UNCHANGED <<converge_rows, current_result, permuted_rows, permuted_result,
                   settled_rows, classifierVars, controllerVars>>

InitSettled ==
    /\ settled_rows \in BoundedSeq(SettledRowInputs, MaxRows)
    /\ settled_result = Pending
    /\ converge_rows = <<>>
    /\ current_result = Pending
    /\ permuted_rows = <<>>
    /\ permuted_result = Pending
    /\ ClassifierIdle
    /\ ControllerIdle

NextSettled == ResolveConvergeSettled

\* one call of resolve_converge_settled on every bounded batch
SpecSettled == InitSettled /\ [][NextSettled]_vars

NextCurrentPair == ResolveConvergeCurrent \/ ResolvePermuted

\* two calls on the same rows, the second on any reordering of them
SpecCurrentPair == InitCurrent /\ [][NextCurrentPair]_vars

-----------------------------------------------------------------------------
(* Actions: both batches, read from files with any header *)

\* a row as csv.DictReader reads it from a file whose header is columns
UnderHeader(row, columns) == [c \in (DOMAIN row) \cap columns |-> row[c]]

CurrentColumns == {"Invoice Number", "Auth Message", "Sales Count"}

SettledColumns == {"Invoice Number", "Original Transaction Type",
                   "Transaction Status", "Original Amount", "Sales Count"}

\* batches of a transaction row and a summary row under every header
CurrentFiles ==
    {[i \in DOMAIN rows |-> UnderHeader(rows[i], header)] :
        rows \in BoundedSeq({CurrentRow(Str(<<"INV1">>), Str(<<"APPROVAL">>), Str(<<>>)),
                             CurrentRow(Str(<<>>), Str(<<>>), Str(<<"2">>))}, MaxRows),
        header \in SUBSET CurrentColumns}

SettledFiles ==
    {[i \in DOMAIN rows |-> UnderHeader(rows[i], header)] :
        rows \in BoundedSeq({SettledRow(Str(<<"INV1">>), Str(<<"SALE">>),
                                        Str(<<"50">>), Str(<<>>)),
                             SettledRow(Str(<<>>), Str(<<>>), Str(<<>>), Str(<<"2">>))},
                            MaxRows),
        header \in SUBSET SettledColumns}

InitFiles ==
    /\ converge_rows \in CurrentFiles
    /\ current_result = Pending
    /\ permuted_rows = <<>>
    /\ permuted_result = Pending
    /\ settled_rows \in SettledFiles
    /\ settled_result = Pending
    /\ ClassifierIdle
    /\ ControllerIdle

NextFiles == ResolveConvergeCurrent \/ ResolveConvergeSettled

\* one call of each resolver on the rows of every bounded pair of files
SpecFiles == InitFiles /\ [][NextFiles]_vars

-----------------------------------------------------------------------------
(* classify_orders called twice on one order, with two authorization batches *)

\* a second call whose converge_map holds another record for the order, or
\* none: the state and action_reason it stores for the order
ClassifyAgain ==
    /\ pc = "done"
    /\ rerun_result = Pending
    /\ \E converge_info \in ConvergeInfoInputs :
          \E out \in {Classify([order EXCEPT !.converge_info = converge_info])} :
              rerun_result' = Returned([converge_info |-> converge_info,
                                        state         |-> out.state,
                                        action_reason |-> out.action_reason])
    /\ UNCHANGED <<order_totals, asn_process_numbers, order_items, sales_orders,
                   response, resolverVars, classifierVars>>

InitAuthPair ==
    /\ converge_rows = <<>>
    /\ current_result = Pending
    /\ permuted_rows = <<>>
    /\ permuted_result = Pending
    /\ settled_rows = <<>>
    /\ settled_result = Pending
    /\ ClassifierIdle
    /\ ControllerIdle

\* the first call, on one order
StartPair ==
    /\ pc = "idle"
    /\ pc' = "loop"
    /\ classification_stats' = InitialStats(1)
    /\ UNCHANGED <<order, orders_result, successful_orders, rejected_orders,
                   failed_orders, action_required_orders, retry_success_orders,
                   converge_data_inconsistencies, settlement_amount_mismatches,
                   settled_no_asn_orders, customer_history,
                   resolverVars, controllerVars>>

NextAuthPair == StartPair \/ ClassifyOrder \/ Return \/ ClassifyAgain

\* two calls that differ in the order's authorization record only
SpecAuthPair == InitAuthPair /\ [][NextAuthPair]_vars

-----------------------------------------------------------------------------
(* run_reconciliation of the controller: the merge of order data *)

MaxItems == 3

\* order_status_lookup after the loop over order_items
RECURSIVE OrderStatusLookup(_)
OrderStatusLookup(items) ==
    IF items = <<>> THEN <<>>
    ELSE LET n == Len(items)
             item == items[n]
             lookup == OrderStatusLookup(SubSeq(items, 1, n - 1))
             order_id == item.order_process_number
             current_status == DictGet(lookup, order_id, None)
             new_status == item.order_status
             stored == [k \in DOMAIN lookup \cup {order_id} |->
                           IF k = order_id THEN new_status ELSE lookup[k]]
         IN IF current_status = None THEN stored
            ELSE IF current_status # Str(<<"SHIPPED">>) /\ new_status = Str(<<"SHIPPED">>)
            THEN stored
            ELSE IF /\ current_status = Str(<<"ORDERED">>)
                    /\ new_status \in {Str(<<"CLAIMED">>), Str(<<"SHIPPED">>)}
            THEN stored
            ELSE lookup

\* sales_orders after fulfillment_status is added to each order
WithFulfillmentStatus(orders, items) ==
    [i \in DOMAIN orders |->
        [k \in DOMAIN orders[i] \cup {"fulfillment_status"} |->
            IF k = "fulfillment_status"
            THEN DictGet(OrderStatusLookup(items), orders[i].process_number, None)
            ELSE orders[i][k]]]

\* the rows of the order items query
OrderItemInputs ==
    [order_process_number : 1..2,
     order_status : {Str(<<"SHIPPED">>), Str(<<"CLAIMED">>), Str(<<"ORDERED">>),
                     Str(<<"REJECTED">>)}]

\* the rows of the sales orders query, as far as the merge reads them
SalesOrderInputs == {<<[process_number |-> 1]>>,
                     <<[process_number |-> 1], [process_number |-> 2]>>,
                     <<[process_number |-> 2], [process_number |-> 1]>>}

\* STEP 2: MERGE ORDER DATA
MergeOrderData ==
    /\ \A i \in DOMAIN sales_orders : "fulfillment_status" \notin DOMAIN sales_orders[i]
    /\ sales_orders' = WithFulfillmentStatus(sales_orders, order_items)
    /\ UNCHANGED <<order_items, order_totals, asn_process_numbers, rerun_result,
                   response, resolverVars, classifierVars>>

InitMerge ==
    /\ converge_rows = <<>>
    /\ current_result = Pending
    /\ permuted_rows = <<>>
    /\ permuted_result = Pending
    /\ settled_rows = <<>>
    /\ settled_result = Pending
    /\ ClassifierIdle
    /\ order_totals = Pending
    /\ asn_process_numbers = Pending
    /\ rerun_result = Pending
    /\ response = Pending
    /\ order_items \in BoundedSeq(OrderItemInputs, MaxItems)
    /\ sales_orders \in SalesOrderInputs

NextMerge == MergeOrderData

\* the merge on every bounded list of order items
SpecMerge == InitMerge /\ [][NextMerge]_vars

-----------------------------------------------------------------------------
(* run_reconciliation of the controller: the service call and the report *)

HTTPException(status_code, detail) ==
    [kind |-> "raise", exc |-> "HTTPException",
     status_code |-> status_code, detail |-> detail]

\* a variant that lets the exception through
ServiceFailure_reraised(e) == Raise(e)

\* except Exception as e: raise HTTPException(500, f"Reconciliation failed: {e}")
ServiceFailure(e) == HTTPException(500, <<"Reconciliation failed: ", e>>)

\* ReconciliationService.run_reconciliation, first part: the authorization
\* batch is resolved, then the settlement batch; what a resolver raises ends
\* the call
ResolveBatches(current_batch, settled_batch, its_current, its_settled) ==
    LET current == resolve_converge_current(current_batch, its_current) IN
    [current |-> current,
     settled |-> IF current.kind = "raise" THEN Pending
                 ELSE resolve_converge_settled(settled_batch, its_settled)]

\* a process number as the batches write it in Invoice Number
InvoiceNumberOf(process_number) ==
    IF process_number = 1 THEN <<"INV1">> ELSE <<"INV2">>

\* the files of a run: absent, or rows of INV1 under a header with or
\* without the last required column
RunCurrentFiles ==
    {[i \in DOMAIN rows |-> UnderHeader(rows[i], header)] :
        rows \in BoundedSeq({CurrentRow(Str(<<"INV1">>), Str(<<"APPROVAL">>), Str(<<>>)),
                             CurrentRow(Str(<<"INV1">>), Str(<<"DECLINED", ":NSF">>),
                                        Str(<<>>))}, MaxRows),
        header \in {{"Invoice Number", "Auth Message"}, {"Invoice Number"}}}

RunSettledFiles ==
    {[i \in DOMAIN rows |-> UnderHeader(rows[i], header)] :
        rows \in BoundedSeq({SettledRow(Str(<<"INV1">>), Str(<<"SALE">>),
                                        Str(<<"50">>), Str(<<>>)),
                             SettledRow(Str(<<"INV1">>), Str(<<"SALE">>),
                                        Str(<<"N/A">>), Str(<<>>))}, MaxRows),
        header \in {{"Invoice Number", "Original Transaction Type",
                     "Transaction Status", "Original Amount"},
                    {"Invoice Number", "Original Transaction Type",
                     "Transaction Status"}}}

\* STEP 4: the call of the service up to the classification
CallService ==
    /\ pc = "idle"
    /\ response = Pending
    /\ current_result = Pending
    /\ \A i \in DOMAIN sales_orders : "fulfillment_status" \in DOMAIN sales_orders[i]
    /\ \E its_current \in BatchIterOrders(converge_rows),
          its_settled \in SettledIterOrders(settled_rows) :
          LET resolved == ResolveBatches(converge_rows, settled_rows,
                                         its_current, its_settled)
              last == IF resolved.current.kind = "raise"
                      THEN resolved.current ELSE resolved.settled
          IN /\ current_result' = resolved.current
             /\ settled_result' = resolved.settled
             /\ IF last.kind = "raise"
                THEN /\ response' = ServiceFailure(last.exc)
                     /\ UNCHANGED <<pc, classification_stats>>
                ELSE /\ pc' = "loop"
                     /\ classification_stats' = InitialStats(Len(sales_orders))
                     /\ UNCHANGED response
    /\ UNCHANGED <<converge_rows, permuted_rows, permuted_result, settled_rows,
                   order, orders_result, successful_orders, rejected_orders,
                   failed_orders, action_required_orders, retry_success_orders,
                   converge_data_inconsistencies, settlement_amount_mismatches,
                   settled_no_asn_orders, customer_history,
                   order_totals, asn_process_numbers, rerun_result,
                   order_items, sales_orders>>

\* ReconciliationService.run_reconciliation, second part: classify_orders
\* on the sales orders and the two resolved batches
ClassifyFromBatches ==
    /\ pc = "loop"
    /\ current_result.kind = "return" /\ settled_result.kind = "return"
    /\ Len(orders_result) < classification_stats["total"]
    /\ LET row == sales_orders[Len(orders_result) + 1]
           invoice == InvoiceNumberOf(row.process_number)
       IN ClassifyStep(LookedUp(
              [process_number     |-> row.process_number,
               notif_email        |-> Get(row, "notif_email"),
               notify_mobile_no   |-> Get(row, "notify_mobile_no"),
               order_date         |-> Get(row, "order_date"),
               fulfillment_status |-> Get(row, "fulfillment_status"),
               order_state        |-> Get(row, "order_state"),
               converge_info      |-> DictGet(current_result.invoices, invoice, EmptyDict),
               settled_info       |-> DictGet(settled_result.invoice_level, invoice,
                                              EmptyDict)],
              AsnSet(asn_process_numbers).v, OrderTotalsMap(order_totals).v))
    /\ UNCHANGED <<pc, retry_success_orders, resolverVars, controllerVars>>

\* STEPS 5 to 7: the workbook of the classification, or the failure of the
\* workbook writer
GenerateReport ==
    /\ pc = "done"
    /\ response = Pending
    /\ current_result.kind = "return" /\ settled_result.kind = "return"
    /\ response' \in {[kind   |-> "response",
                       report |-> [orders                 |-> orders_result,
                                   successful_orders      |-> successful_orders,
                                   failed_orders          |-> failed_orders,
                                   action_required_orders |-> action_required_orders]],
                      HTTPException(500, <<"Excel generation failed">>)}
    /\ UNCHANGED <<order_items, sales_orders, order_totals, asn_process_numbers,
                   rerun_result, resolverVars, classifierVars>>

InitRun ==
    /\ converge_rows \in RunCurrentFiles
    /\ current_result = Pending
    /\ permuted_rows = <<>>
    /\ permuted_result = Pending
    /\ settled_rows \in RunSettledFiles
    /\ settled_result = Pending
    /\ ClassifierIdle
    /\ order_totals \in {Dict(<<>>), Dict(<<Num(5000)>>)}
    /\ asn_process_numbers = None
    /\ rerun_result = Pending
    /\ response = Pending
    /\ order_items \in
           BoundedSeq({[order_process_number |-> 1, order_status |-> Str(<<"ORDERED">>)],
                       [order_process_number |-> 1, order_status |-> Str(<<"SHIPPED">>)]},
                      1)
    /\ sales_orders \in
           {<<[process_number |-> 1, order_state |-> Str(<<"SUCCESS">>)]>>,
            <<[process_number |-> 1, order_state |-> Str(<<"SUCCESS">>)],
              [process_number |-> 2, order_state |-> Str(<<"PAYMENT_CANCELLED">>)]>>}

NextRun ==
    MergeOrderData \/ CallService \/ ClassifyFromBatches \/ Return \/ GenerateReport

\* a run of the endpoint from the merge on, for every bounded pair of files
SpecRun == InitRun /\ [][NextRun]_vars

-----------------------------------------------------------------------------
(* Properties of classify_orders *)

\* how often order_id occurs in a list
Occurrences(list, order_id) ==
    Cardinality({i \in DOMAIN list : list[i] = order_id})

\* the lists of the returned dict an order id occurs in, with multiplicity
PartitionCount(order_id) ==
    Occurrences(successful_orders, order_id)
    + Occurrences(action_required_orders, order_id)
    + (IF order_id \in failed_orders THEN 1 ELSE 0)

\* the result stored for the order of the iteration just run
ResultOfOrder == orders_result[order.process_number]

Classified == order # NoOrder

\* the settlement record of the order, read directly
OrderIsSettled ==
    "settled" \in DOMAIN order.settled_info /\ order.settled_info.settled

\* the authorization status of the order, read directly
OrderConvergeStatus ==
    IF "final_status" \in DOMAIN order.converge_info
    THEN order.converge_info.final_status ELSE <<"NA">>

\* C1: after classify_orders, every order's state is one of SUCCESS, FAILED
\* and ACTION_REQUIRED, and its id occurs in exactly one of successful_orders,
\* failed_orders and action_required_orders, exactly once.
C1_StatePartition ==
    pc = "done" =>
        \A order_id \in DOMAIN orders_result :
            /\ orders_result[order_id].state
                   \in {"SUCCESS", "FAILED", "ACTION_REQUIRED"}
            /\ PartitionCount(order_id) = 1

\* C2: an order whose order_state is ERROR is classified ACTION_REQUIRED with
\* reason CXP_ERROR_STATE whatever its other readings are, and it stays so
\* through amount validation, the SETTLED_NO_ASN block and the return.
C2_ErrorStateWins ==
    (Classified /\ order.order_state = Str(<<"ERROR">>)) =>
        /\ ResultOfOrder.state = "ACTION_REQUIRED"
        /\ ResultOfOrder.action_reason = Str(<<"CXP_ERROR_STATE">>)

\* an ERROR order that is shipped and settled a cent off its total without a
\* shipment confirmation has been classified so
C2_Witness ==
    /\ Classified
    /\ order.order_state = Str(<<"ERROR">>)
    /\ order.fulfillment_status = Str(<<"SHIPPED">>)
    /\ OrderIsSettled /\ ~order.has_asn
    /\ order.order_total = Num(10000) /\ order.settled_info.net_amount = 10001
    /\ ResultOfOrder.state = "ACTION_REQUIRED"
    /\ ResultOfOrder.action_reason = Str(<<"CXP_ERROR_STATE">>)

\* the order is outside rules 1 to 3
PastRulesOneToThree ==
    /\ order.order_state \notin {Str(<<"ERROR">>), Str(<<"PAYMENT_CANCELLED">>)}
    /\ ~ (/\ order.order_state = Str(<<"SUCCESS">>)
          /\ OrderConvergeStatus = <<"NA">>
          /\ ~OrderIsSettled
          /\ order.fulfillment_status \in {Str(<<"ORDERED">>), Str(<<"CLAIMED">>)})

\* C3: an order outside rules 1 to 3 that has a shipment confirmation and is
\* not settled is classified ACTION_REQUIRED with reason ASN_NOT_SETTLED, also
\* when its fulfillment_status is SHIPPED.
C3_AsnNotSettledPreempts ==
    (Classified /\ PastRulesOneToThree /\ order.has_asn /\ ~OrderIsSettled) =>
        /\ ResultOfOrder.state = "ACTION_REQUIRED"
        /\ ResultOfOrder.action_reason = Str(<<"ASN_NOT_SETTLED">>)

\* a shipped, confirmed, unsettled order has been classified ASN_NOT_SETTLED
C3_Witness ==
    /\ Classified /\ PastRulesOneToThree
    /\ order.fulfillment_status = Str(<<"SHIPPED">>)
    /\ order.has_asn /\ ~OrderIsSettled
    /\ ResultOfOrder.action_reason = Str(<<"ASN_NOT_SETTLED">>)

\* the settlement and authorization records of the order, read directly
OrderHasAnomaly ==
    "has_anomaly" \in DOMAIN order.settled_info /\ order.settled_info.has_anomaly

OrderIsDataIssue ==
    "is_data_issue" \in DOMAIN order.converge_info /\ order.converge_info.is_data_issue

OrderedOrClaimed ==
    order.fulfillment_status \in {Str(<<"ORDERED">>), Str(<<"CLAIMED">>)}

\* the number of the first rule of the priority list that matches the order
FirstMatchingRule ==
    IF order.order_state = Str(<<"ERROR">>) THEN 1
    ELSE IF /\ order.order_state = Str(<<"SUCCESS">>)
            /\ OrderConvergeStatus = <<"NA">>
            /\ ~OrderIsSettled
            /\ OrderedOrClaimed THEN 2
    ELSE IF order.order_state = Str(<<"PAYMENT_CANCELLED">>) THEN 3
    ELSE IF order.has_asn /\ ~OrderIsSettled THEN 4
    ELSE IF order.fulfillment_status = Str(<<"SHIPPED">>) /\ ~OrderIsSettled THEN 5
    ELSE IF /\ order.fulfillment_status = Str(<<"REJECTED">>)
            /\ OrderConvergeStatus = <<"APPROVAL">> THEN 6
    ELSE IF /\ order.fulfillment_status \in {None, Str(<<>>)}
            /\ OrderConvergeStatus = <<"APPROVAL">> THEN 7
    ELSE IF OrderHasAnomaly THEN 8
    ELSE IF /\ order.fulfillment_status = Str(<<"SHIPPED">>) \/ order.has_asn
            /\ OrderIsSettled THEN 9
    ELSE IF OrderedOrClaimed /\ OrderConvergeStatus = <<"APPROVAL">> THEN 10
    ELSE IF \/ \E i \in DOMAIN OrderConvergeStatus :
                  OrderConvergeStatus[i] = "DECLINED"
            \/ OrderConvergeStatus = <<"SUSPECTED", " ", "FRAUD">> THEN 11
    ELSE 12

\* the order is a candidate SUCCESS whose amounts are validated
AmountsValidated ==
    FirstMatchingRule = 9 \/ (FirstMatchingRule = 10 /\ ~OrderIsDataIssue)

BothAmounts ==
    order.order_total # None /\ "net_amount" \in DOMAIN order.settled_info

\* |settled net amount - order total|, in cents
CentsApart ==
    LET d == order.settled_info.net_amount - order.order_total.v
    IN IF d < 0 THEN 0 - d ELSE d

MismatchFlagged ==
    /\ ResultOfOrder.state = "ACTION_REQUIRED"
    /\ ResultOfOrder.action_reason = Str(<<"SETTLEMENT_AMOUNT_MISMATCH">>)

\* C11: a candidate SUCCESS is flagged ACTION_REQUIRED with reason
\* SETTLEMENT_AMOUNT_MISMATCH exactly when both amounts are available and
\* they lie more than 0.01 apart; a difference of exactly 0.01 is not flagged.
C11_StrictTolerance ==
    Classified =>
        (MismatchFlagged <=> (AmountsValidated /\ BothAmounts /\ CentsApart > 1))

\* place of attempt i among a customer's attempts in order-date order, equal
\* dates in input order
DatePosition(attempts, i) ==
    Cardinality({j \in DOMAIN attempts :
        \/ attempts[j].order_date.v < attempts[i].order_date.v
        \/ attempts[j].order_date.v = attempts[i].order_date.v /\ j < i})

\* the later order is marked as the retry of the earlier one
Linked(later, earlier) ==
    LET r == orders_result[later.order_id] IN
    /\ r.is_retry_success
    /\ "previous_failed_attempt" \in DOMAIN r
    /\ r.previous_failed_attempt = earlier.order_id

\* C12: of two orders of one customer adjacent in order-date order, the
\* earlier FAILED or ACTION_REQUIRED and the later SUCCESS, the later is
\* linked to the earlier exactly when their dates lie 0 to 7 days apart; an
\* order placed more than 7 days after the failed attempt is not linked.
C12_RetryWithinSevenDays ==
    pc = "done" =>
        \A c \in DOMAIN customer_history :
            LET attempts == customer_history[c].attempts IN
            \A i, j \in DOMAIN attempts :
                (/\ DatePosition(attempts, j) = DatePosition(attempts, i) + 1
                 /\ attempts[i].state \in {"FAILED", "ACTION_REQUIRED"}
                 /\ attempts[j].state = "SUCCESS")
                => (Linked(attempts[j], attempts[i])
                      <=> LET hours == attempts[j].order_date.v
                                           - attempts[i].order_date.v
                          IN 0 <= hours /\ hours <= 7 * 24)

\* the key the claim groups an order by: its email if it has one, else its
\* phone
KeyOf(result) ==
    IF result.email \notin {None, Str(<<>>)} THEN result.email ELSE result.phone

Keyless(result) == KeyOf(result) \in {None, Str(<<>>)}

\* the orders recorded as some order's previous_failed_attempt
PreviousFailedAttempts ==
    {orders_result[i].previous_failed_attempt :
        i \in {j \in DOMAIN orders_result :
                  "previous_failed_attempt" \in DOMAIN orders_result[j]}}

\* C22: after classify_orders an order with neither email nor phone has
\* is_retry_success false, is not in retry_success_orders and is no order's
\* previous_failed_attempt; an order marked as a retry success has the same
\* key, its email if present and else its phone, as the attempt it is linked to.
C22_KeylessExcluded ==
    pc = "done" =>
        \A order_id \in DOMAIN orders_result :
            LET result == orders_result[order_id] IN
            /\ Keyless(result) =>
                  /\ ~result.is_retry_success
                  /\ Occurrences(retry_success_orders, order_id) = 0
                  /\ order_id \notin PreviousFailedAttempts
            /\ result.is_retry_success =>
                  /\ result.previous_failed_attempt \in DOMAIN orders_result
                  /\ KeyOf(result)
                         = KeyOf(orders_result[result.previous_failed_attempt])

\* a SUCCESS order without email and phone, dated the same hour as the failed
\* order before it, which has neither, has been left unlinked
C22_Witness ==
    /\ pc = "done"
    /\ Len(orders_result) = 2
    /\ Keyless(orders_result[1]) /\ Keyless(orders_result[2])
    /\ orders_result[1].state = "FAILED" /\ orders_result[2].state = "SUCCESS"
    /\ orders_result[1].order_date = Num(0) /\ orders_result[2].order_date = Num(0)
    /\ ~orders_result[2].is_retry_success

\* how many orders of the same customer come before an order in order-date
\* order, equal dates in input order
PlaceInSequence(order_id) ==
    Cardinality({j \in DOMAIN orders_result :
        /\ KeyOf(orders_result[j]) = KeyOf(orders_result[order_id])
        /\ \/ orders_result[j].order_date.v < orders_result[order_id].order_date.v
           \/ /\ orders_result[j].order_date.v = orders_result[order_id].order_date.v
              /\ j < order_id})

ImmediatelyPrecedes(earlier, later) ==
    /\ KeyOf(orders_result[earlier]) = KeyOf(orders_result[later])
    /\ PlaceInSequence(later) = PlaceInSequence(earlier) + 1

\* C23: in a customer's date-sorted sequence of attempts a SUCCESS order is
\* linked to no attempt but the one immediately before it, and to that one
\* only if it is FAILED or ACTION_REQUIRED: the second SUCCESS of FAILED,
\* SUCCESS, SUCCESS is not linked; every SUCCESS that directly follows a
\* FAILED or ACTION_REQUIRED attempt (within the 7 days) is linked to it, as
\* both are in FAILED, SUCCESS, FAILED, SUCCESS.
C23_OneHop ==
    pc = "done" =>
        \A later \in DOMAIN orders_result :
            LET result == orders_result[later] IN
            /\ result.is_retry_success =>
                  /\ result.state = "SUCCESS"
                  /\ result.previous_failed_attempt \in DOMAIN orders_result
                  /\ ImmediatelyPrecedes(result.previous_failed_attempt, later)
                  /\ orders_result[result.previous_failed_attempt].state
                         \in {"FAILED", "ACTION_REQUIRED"}
            /\ \A earlier \in DOMAIN orders_result :
                  (/\ ImmediatelyPrecedes(earlier, later)
                   /\ result.state = "SUCCESS"
                   /\ orders_result[earlier].state \in {"FAILED", "ACTION_REQUIRED"}
                   /\ result.order_date.v - orders_result[earlier].order_date.v
                          <= 7 * 24)
                  => /\ result.is_retry_success
                     /\ result.previous_failed_attempt = earlier
                     /\ Occurrences(retry_success_orders, later) = 1

\* four attempts that arrived out of date order and sort to FAILED, SUCCESS,
\* FAILED (the same day, arrived later), SUCCESS: each SUCCESS has been
\* linked to the attempt before it
C23_Witness ==
    /\ pc = "done"
    /\ Len(orders_result) = 4
    /\ orders_result[2].order_date = Num(0) /\ orders_result[2].state = "FAILED"
    /\ orders_result[1].order_date = Num(24) /\ orders_result[1].state = "SUCCESS"
    /\ orders_result[4].order_date = Num(24) /\ orders_result[4].state = "FAILED"
    /\ orders_result[3].order_date = Num(48) /\ orders_result[3].state = "SUCCESS"
    /\ orders_result[1].is_retry_success
    /\ orders_result[1].previous_failed_attempt = 2
    /\ orders_result[3].is_retry_success
    /\ orders_result[3].previous_failed_attempt = 4
    /\ retry_success_orders = <<1, 3>>

\* what amount validation may leave of a candidate SUCCESS: a mismatch above
\* one cent, SUCCESS on equal or missing amounts; the difference of exactly
\* one cent is the subject of C11 and is left open here
ValidatedOutcomes ==
    IF BothAmounts /\ CentsApart > 1
    THEN {<<"ACTION_REQUIRED", Str(<<"SETTLEMENT_AMOUNT_MISMATCH">>)>>}
    ELSE IF BothAmounts /\ CentsApart = 1
    THEN {<<"ACTION_REQUIRED", Str(<<"SETTLEMENT_AMOUNT_MISMATCH">>)>>,
          <<"SUCCESS", None>>}
    ELSE {<<"SUCCESS", None>>}

\* the outcome the priority list gives the first matching rule
ChainOutcomes ==
    CASE FirstMatchingRule = 1 -> {<<"ACTION_REQUIRED", Str(<<"CXP_ERROR_STATE">>)>>}
      [] FirstMatchingRule = 2 -> {<<"ACTION_REQUIRED", Str(<<"NO_PAYMENT_DATA">>)>>}
      [] FirstMatchingRule = 3 -> {<<"FAILED", None>>}
      [] FirstMatchingRule = 4 -> {<<"ACTION_REQUIRED", Str(<<"ASN_NOT_SETTLED">>)>>}
      [] FirstMatchingRule = 5 -> {<<"ACTION_REQUIRED", Str(<<"SHIPPED_NOT_SETTLED">>)>>}
      [] FirstMatchingRule = 6 -> {<<"ORDER REJECTED", None>>}
      [] FirstMatchingRule = 7 ->
             {<<"ACTION_REQUIRED", Str(<<"PAYMENT_SUCCESS_ORDER_FAILED">>)>>}
      [] FirstMatchingRule = 8 -> {<<"ACTION_REQUIRED", Str(<<"SETTLEMENT_ANOMALY">>)>>}
      [] FirstMatchingRule = 9 -> ValidatedOutcomes
      [] FirstMatchingRule = 10 ->
             IF OrderIsDataIssue
             THEN {<<"SUCCESS", Str(<<"CONVERGE_DATA_INCONSISTENCY">>)>>}
             ELSE ValidatedOutcomes
      [] OTHER -> {<<"FAILED", None>>}

\* the post-check: settled, shipped, no shipment confirmation
OrderSettledNoAsn ==
    /\ OrderIsSettled /\ ~order.has_asn
    /\ order.fulfillment_status = Str(<<"SHIPPED">>)

PostChecked(outcome) ==
    IF outcome[1] = "SUCCESS" /\ OrderSettledNoAsn
    THEN <<"ACTION_REQUIRED", Str(<<"SETTLED_NO_ASN">>)>>
    ELSE outcome

C16_PaymentCancelledFails ==
    (Classified /\ order.order_state = Str(<<"PAYMENT_CANCELLED">>)) =>
        /\ ResultOfOrder.state = "FAILED"
        /\ ResultOfOrder.action_reason = None
        /\ order.process_number \in failed_orders
        /\ Occurrences(successful_orders, order.process_number) = 0
        /\ Occurrences(action_required_orders, order.process_number) = 0

\* a cancelled order that was shipped, confirmed and not settled is FAILED
C16_Witness ==
    /\ Classified
    /\ order.order_state = Str(<<"PAYMENT_CANCELLED">>)
    /\ order.fulfillment_status = Str(<<"SHIPPED">>)
    /\ order.has_asn /\ ~OrderIsSettled
    /\ ResultOfOrder.state = "FAILED"
    /\ order.process_number \in failed_orders

\* C17: an order that reaches rule 6 is counted in
\* classification_stats.order_rejected, its id is recorded in rejected_orders,
\* and it is not put in failed_orders.
C17_RejectedTracked ==
    (Classified /\ FirstMatchingRule = 6) =>
        /\ classification_stats["order_rejected"] >= 1
        /\ Occurrences(rejected_orders, order.process_number) = 1
        /\ order.process_number \notin failed_orders

\* C18: a settled, shipped order without shipment confirmation for which the
\* chain produced SUCCESS ends ACTION_REQUIRED with reason SETTLED_NO_ASN; an
\* order for which the chain produced ACTION_REQUIRED or FAILED keeps that
\* state and reason; so no shipped order without shipment confirmation ends
\* SUCCESS.
C18_SettledNoAsnPostCheck ==
    Classified =>
        /\ (OrderSettledNoAsn /\ \A outcome \in ChainOutcomes : outcome[1] = "SUCCESS")
               => /\ ResultOfOrder.state = "ACTION_REQUIRED"
                  /\ ResultOfOrder.action_reason = Str(<<"SETTLED_NO_ASN">>)
        /\ (\A outcome \in ChainOutcomes : outcome[1] \in {"ACTION_REQUIRED", "FAILED"})
               => <<ResultOfOrder.state, ResultOfOrder.action_reason>> \in ChainOutcomes
        /\ (order.fulfillment_status = Str(<<"SHIPPED">>) /\ ~order.has_asn)
               => ResultOfOrder.state # "SUCCESS"

\* a shipped order settled at its total without shipment confirmation has
\* been downgraded
C18_Witness ==
    /\ Classified
    /\ FirstMatchingRule = 9
    /\ OrderSettledNoAsn
    /\ BothAmounts /\ CentsApart = 0
    /\ ResultOfOrder.state = "ACTION_REQUIRED"
    /\ ResultOfOrder.action_reason = Str(<<"SETTLED_NO_ASN">>)

\* the entries of settlement_amount_mismatches for an order id
MismatchEntries(order_id) ==
    {i \in DOMAIN settlement_amount_mismatches :
        settlement_amount_mismatches[i].order_id = order_id}

\* C19: an order that reaches rule 10 with is_data_issue is classified
\* SUCCESS with reason CONVERGE_DATA_INCONSISTENCY and listed in
\* converge_data_inconsistencies; its amounts are not validated, so it is
\* never a mismatch and adds nothing to settlement_amount_mismatches.
C19_DataIssueSkipsValidation ==
    (Classified /\ FirstMatchingRule = 10 /\ OrderIsDataIssue) =>
        /\ ResultOfOrder.state = "SUCCESS"
        /\ ResultOfOrder.action_reason = Str(<<"CONVERGE_DATA_INCONSISTENCY">>)
        /\ Occurrences(converge_data_inconsistencies, order.process_number) = 1
        /\ MismatchEntries(order.process_number) = {}

\* an ordered, approved order with a data issue, settled two cents off its
\* total, has been tagged
C19_Witness ==
    /\ Classified
    /\ FirstMatchingRule = 10 /\ OrderIsDataIssue
    /\ BothAmounts /\ CentsApart > 1
    /\ ResultOfOrder.state = "SUCCESS"
    /\ ResultOfOrder.action_reason = Str(<<"CONVERGE_DATA_INCONSISTENCY">>)

OmittedOrEmpty(argument) == argument = None \/ DOMAIN argument.v = {}

\* C21: with order_totals and/or asn_process_numbers omitted or empty,
\* classify_orders raises nothing and gives every order a state; the order is
\* then looked up as having no total, or no shipment confirmation.  An order
\* that reaches rule 9 or 10 without an order total or without a settled net
\* amount passes amount validation: it is counted as a success, ends SUCCESS
\* (or, as every SUCCESS of the chain, SETTLED_NO_ASN if the post-check
\* applies) and adds nothing to settlement_amount_mismatches.
C21_OptionalInputsNeverBlock ==
    /\ pc # "raised"
    /\ pc = "done" =>
          /\ Len(orders_result) = classification_stats["total"]
          /\ \A i \in DOMAIN orders_result :
                 orders_result[i].state
                     \in {"SUCCESS", "FAILED", "ACTION_REQUIRED", "ORDER REJECTED"}
    /\ Classified =>
          /\ OmittedOrEmpty(asn_process_numbers) => ~order.has_asn
          /\ OmittedOrEmpty(order_totals) => order.order_total = None
          /\ (FirstMatchingRule \in {9, 10} /\ ~BothAmounts) =>
                /\ <<ResultOfOrder.state, ResultOfOrder.action_reason>>
                       = PostChecked(<<"SUCCESS",
                                       IF FirstMatchingRule = 10 /\ OrderIsDataIssue
                                       THEN Str(<<"CONVERGE_DATA_INCONSISTENCY">>)
                                       ELSE None>>)
                /\ MismatchEntries(order.process_number) = {}
                /\ classification_stats["settlement_amount_mismatch"]
                       = Len(settlement_amount_mismatches)
                /\ classification_stats["success_shipped_settled"]
                       + classification_stats["success_ordered_approved"]
                       + classification_stats["verification_needed"] >= 1

\* a call without order_totals and without asn_process_numbers has returned;
\* its last order, ordered and approved with no settlement record, is SUCCESS
C21_Witness ==
    /\ pc = "done"
    /\ order_totals = None /\ asn_process_numbers = None
    /\ Classified
    /\ FirstMatchingRule = 10
    /\ "net_amount" \notin DOMAIN order.settled_info
    /\ ResultOfOrder.state = "SUCCESS"

-----------------------------------------------------------------------------
(* Properties of the controller's merge *)

\* the statuses of the item rows that carry a process number
StatusesOf(process_number) ==
    {order_items[i].order_status :
        i \in {j \in DOMAIN order_items :
                  order_items[j].order_process_number = process_number}}

Merged == \A i \in DOMAIN sales_orders : "fulfillment_status" \in DOMAIN sales_orders[i]

\* C25: after the merge an order's fulfillment_status is SHIPPED if one of
\* its item rows is SHIPPED, else CLAIMED if one is CLAIMED, else ORDERED if
\* one is ORDERED, whatever the order of the rows and whatever rows other
\* orders have; it is None when the order has no item row.
C25_HighestStatusDerived ==
    Merged =>
        \A i \in DOMAIN sales_orders :
            LET statuses == StatusesOf(sales_orders[i].process_number)
                derived == sales_orders[i].fulfillment_status
            IN /\ statuses = {} => derived = None
               /\ statuses # {} => derived \in statuses
               /\ Str(<<"SHIPPED">>) \in statuses => derived = Str(<<"SHIPPED">>)
               /\ (Str(<<"CLAIMED">>) \in statuses /\ Str(<<"SHIPPED">>) \notin statuses)
                      => derived = Str(<<"CLAIMED">>)
               /\ (/\ Str(<<"ORDERED">>) \in statuses
                   /\ Str(<<"CLAIMED">>) \notin statuses
                   /\ Str(<<"SHIPPED">>) \notin statuses)
                      => derived = Str(<<"ORDERED">>)

-----------------------------------------------------------------------------
(* Properties of resolve_converge_current *)

\* the invoice's messages as the claim reads them: trimmed, upper-cased,
\* the empty ones left out, in input row order
MessagesInRowOrder(rows, k) ==
    LET own == SelectSeq(rows, LAMBDA r : InvoiceOf(r) = k)
        all == [i \in DOMAIN own |-> AuthOf(own[i])]
    IN SelectSeq(all, LAMBDA m : m # <<>>)

Range(q) == {q[i] : i \in DOMAIN q}

\* place of a message in the fixed priority list (7: not in the list)
PriorityRank(m) ==
    CASE m = <<"APPROVAL">> -> 1
      [] m = <<"DECLINED", ":NSF">> -> 2
      [] m = <<"DECLINED", ":CLOSED">> -> 3
      [] m = <<"SUSPECTED", " ", "FRAUD">> -> 4
      [] m = <<"WITHDRAWAL", " ", "LIMIT">> -> 5
      [] OTHER -> IF m # <<>> /\ Head(m) = "DECLINED" THEN 6 ELSE 7

\* C4: final_status depends only on the set of the invoice's messages: a
\* second run on the same rows, in any order, gives every invoice the same
\* final_status.
C4_FinalStatusDeterministic ==
    (current_result.kind = "return" /\ permuted_result.kind = "return") =>
        \A k \in DOMAIN current_result.invoices :
            permuted_result.invoices[k].final_status
                = current_result.invoices[k].final_status

\* C5: final_status is NA for an invoice without a non-empty message, and
\* otherwise, when some message is in the priority list or starts with
\* DECLINED, a message of the invoice of the best rank present.
C5_HighestPriorityWins ==
    current_result.kind = "return" =>
        \A k \in DOMAIN current_result.invoices :
            LET msgs == Range(MessagesInRowOrder(converge_rows, k))
                fs == current_result.invoices[k].final_status
            IN /\ msgs = {} => fs = <<"NA">>
               /\ (\E m \in msgs : PriorityRank(m) <= 6) =>
                      /\ fs \in msgs
                      /\ \A m \in msgs : PriorityRank(fs) <= PriorityRank(m)

\* DECLINED then APPROVAL for one invoice resolved to APPROVAL
C5_Witness ==
    /\ converge_rows = <<CurrentRow(Str(<<"INV1">>), Str(<<"DECLINED">>), Str(<<>>)),
                         CurrentRow(Str(<<"INV1">>), Str(<<"APPROVAL">>), Str(<<>>))>>
    /\ current_result.kind = "return"
    /\ current_result.invoices[<<"INV1">>].final_status = <<"APPROVAL">>

\* C6: with no message in the priority list and none starting with DECLINED,
\* final_status is the invoice's first non-empty message in input row order.
C6_FirstSeenMessage ==
    current_result.kind = "return" =>
        \A k \in DOMAIN current_result.invoices :
            LET seen == MessagesInRowOrder(converge_rows, k) IN
            (seen # <<>> /\ \A m \in Range(seen) : PriorityRank(m) = 7) =>
                current_result.invoices[k].final_status = seen[1]

\* C7: is_data_issue holds exactly for the invoices with two rows whose
\* non-empty messages differ after trimming and upper-casing, and
\* stats.data_inconsistencies counts those invoices.
C7_DataIssueIffDistinctMessages ==
    current_result.kind = "return" =>
        LET inv == current_result.invoices
            differ(k) == \E m1, m2 \in Range(MessagesInRowOrder(converge_rows, k)) :
                             m1 # m2
        IN /\ \A k \in DOMAIN inv : inv[k].is_data_issue <=> differ(k)
           /\ current_result.stats.data_inconsistencies
                  = Cardinality({k \in DOMAIN inv : differ(k)})

\* an invoice of two rows with different messages is flagged and counted
C7_Witness ==
    /\ current_result.kind = "return"
    /\ \E k \in DOMAIN current_result.invoices :
          /\ current_result.invoices[k].is_data_issue
          /\ current_result.invoices[k].row_count = 2
    /\ current_result.stats.data_inconsistencies = 1

-----------------------------------------------------------------------------
(* Properties of resolve_converge_settled *)

\* the transaction type of a raw row as the claims read it
TypeAsRead(row) == Upper(Strip(OrEmpty(Get(row, "Original Transaction Type"))))

\* the raw rows of invoice k with transaction type t
RawRowsOfType(k, t) ==
    SelectSeq(settled_rows, LAMBDA r : InvoiceOf(r) = k /\ TypeAsRead(r) = t)

\* what each amount text of the inputs is worth, in cents (0: no amount)
CentsOfText(a) ==
    CASE a = Str(<<"50">>) -> 5000
      [] a = Str(<<"$", "1", ",", "050", ".", "01">>) -> 105001
      [] OTHER -> 0

RECURSIVE TotalCents(_)
TotalCents(rows) ==
    IF rows = <<>> THEN 0
    ELSE CentsOfText(Head(rows)["Original Amount"]) + TotalCents(Tail(rows))

\* C8: settled holds exactly when sale_count > 0, and net_amount is
\* sale_amount minus return_amount.
C8_SettledAndNet ==
    settled_result.kind = "return" =>
        \A k \in DOMAIN settled_result.invoice_level :
            LET r == settled_result.invoice_level[k] IN
            /\ r.settled <=> r.sale_count > 0
            /\ r.net_amount = r.sale_amount - r.return_amount

\* an invoice with a SALE and a RETURN row, settled, net 0 < sale
C8_Witness ==
    /\ settled_result.kind = "return"
    /\ \E k \in DOMAIN settled_result.invoice_level :
          LET r == settled_result.invoice_level[k] IN
          /\ r.settled /\ r.sale_count = 1 /\ r.return_count = 1
          /\ r.sale_amount = 105001 /\ r.return_amount = 5000
          /\ r.net_amount = 100001

C10_AmountsSummed ==
    /\ (settled_rows # <<>> /\ settled_result # Pending) =>
           settled_result.kind = "return"
    /\ settled_result.kind = "return" =>
        \A k \in DOMAIN settled_result.invoice_level :
            LET r == settled_result.invoice_level[k] IN
            /\ r.sale_count = Len(RawRowsOfType(k, <<"SALE">>))
            /\ r.return_count = Len(RawRowsOfType(k, <<"RETURN">>))
            /\ r.sale_amount = TotalCents(RawRowsOfType(k, <<"SALE">>))
            /\ r.return_amount = TotalCents(RawRowsOfType(k, <<"RETURN">>))

\* two SALE rows of 50 for one invoice
C10_Witness ==
    /\ settled_rows = <<SettledRow(Str(<<"INV1">>), Str(<<"SALE">>), Str(<<"50">>), Str(<<>>)),
                        SettledRow(Str(<<"INV1">>), Str(<<"SALE">>), Str(<<"50">>), Str(<<>>))>>
    /\ settled_result.kind = "return"
    /\ settled_result.invoice_level[<<"INV1">>].sale_count = 2
    /\ settled_result.invoice_level[<<"INV1">>].sale_amount = 10000
    /\ settled_result.invoice_level[<<"INV1">>].has_anomaly

-----------------------------------------------------------------------------
(* Properties of both resolvers *)

\* the batch is not empty and its first row has the columns
FirstRowHas(rows, columns) == rows # <<>> /\ columns \subseteq DOMAIN rows[1]

RaisedValidationError(result) ==
    result.kind = "raise" /\ result.exc = "ValidationError"

\* C13: each resolver fails with ValidationError, returning nothing, exactly
\* when its row list is empty or its first row lacks one of its required
\* columns.
C13_ValidationError ==
    /\ current_result # Pending =>
           (RaisedValidationError(current_result)
              <=> ~FirstRowHas(converge_rows, {"Invoice Number", "Auth Message"}))
    /\ settled_result # Pending =>
           (RaisedValidationError(settled_result)
              <=> ~FirstRowHas(settled_rows,
                               {"Invoice Number", "Original Transaction Type",
                                "Transaction Status", "Original Amount"}))

\* a batch whose rows lack the Auth Message column was refused, and a
\* settlement batch with all four columns was resolved
C13_Witness ==
    /\ converge_rows # <<>>
    /\ "Auth Message" \notin DOMAIN converge_rows[1]
    /\ "Invoice Number" \in DOMAIN converge_rows[1]
    /\ RaisedValidationError(current_result)
    /\ settled_rows # <<>>
    /\ settled_result.kind = "return"

\* C14: a second run of the resolver on the same row list gives the output
\* of the first.
C14_SameOutputTwice ==
    (/\ current_result # Pending
     /\ permuted_result # Pending
     /\ permuted_rows = converge_rows)
    => permuted_result = current_result

-----------------------------------------------------------------------------
(* Properties of the statistics and of the final states *)

SuccessCounters ==
    classification_stats["success_shipped_settled"]
    + classification_stats["success_ordered_approved"]
    + classification_stats["verification_needed"]

FailedCounters ==
    classification_stats["declined"] + classification_stats["fraud"]
    + classification_stats["payment_cancelled"] + classification_stats["failed_other"]

\* C26: after classify_orders the three success counters add up to the number
\* of successful_orders, and the four failure counters to the number of
\* failed_orders.
C26_CountersMatchPartitions ==
    pc = "done" =>
        /\ SuccessCounters = Len(successful_orders)
        /\ FailedCounters = Cardinality(failed_orders)

\* the half of C26 about failed_orders
C26_FailedCountersMatch ==
    pc = "done" => FailedCounters = Cardinality(failed_orders)

\* the success counters never undercount, and exceed successful_orders by
\* exactly the orders the post-check took out
C26_SuccessCountersOvershoot ==
    pc = "done" =>
        SuccessCounters = Len(successful_orders)
                          + classification_stats["settled_no_asn"]

\* C27 as stated: an order that is in the shipment-confirmation set and is
\* not settled ends ACTION_REQUIRED, whatever its order_state,
\* fulfillment_status and authorization status are.
C27_AsnNotSettledActionRequired ==
    (Classified /\ order.has_asn /\ ~OrderIsSettled) =>
        ResultOfOrder.state = "ACTION_REQUIRED"

\* C27, amended: an order that is in the shipment-confirmation set, is not
\* settled and whose order_state is not PAYMENT_CANCELLED ends ACTION_REQUIRED
\* and in action_required_orders, whatever its fulfillment_status and
\* authorization status are; with order_state PAYMENT_CANCELLED it ends FAILED.
C27_AsnNotSettledUnlessCancelled ==
    (Classified /\ order.has_asn /\ ~OrderIsSettled) =>
        IF order.order_state = Str(<<"PAYMENT_CANCELLED">>)
        THEN ResultOfOrder.state = "FAILED"
        ELSE /\ ResultOfOrder.state = "ACTION_REQUIRED"
             /\ Occurrences(action_required_orders, order.process_number) = 1
             /\ Occurrences(successful_orders, order.process_number) = 0
             /\ order.process_number \notin failed_orders

\* a confirmed, unsettled order whose authorization was declined, which rule 12
\* would fail, is ACTION_REQUIRED / ASN_NOT_SETTLED
C27_Witness ==
    /\ Classified
    /\ order.has_asn /\ ~OrderIsSettled
    /\ order.order_state = Str(<<"SUCCESS">>)
    /\ OrderConvergeStatus = DECLINED_NSF
    /\ ResultOfOrder.state = "ACTION_REQUIRED"
    /\ ResultOfOrder.action_reason = Str(<<"ASN_NOT_SETTLED">>)

ActionReasons ==
    {Str(<<"CXP_ERROR_STATE">>), Str(<<"NO_PAYMENT_DATA">>),
     Str(<<"ASN_NOT_SETTLED">>), Str(<<"SHIPPED_NOT_SETTLED">>),
     Str(<<"PAYMENT_SUCCESS_ORDER_FAILED">>), Str(<<"SETTLEMENT_ANOMALY">>),
     Str(<<"SETTLEMENT_AMOUNT_MISMATCH">>), Str(<<"SETTLED_NO_ASN">>)}

\* C28: in every classification result, state ACTION_REQUIRED comes with one
\* of the eight action reasons, state FAILED with no action_reason, and state
\* SUCCESS with no action_reason or CONVERGE_DATA_INCONSISTENCY, for an order
\* without settlement anomaly whose order_state is neither ERROR nor
\* PAYMENT_CANCELLED.
C28_StateReasonConsistent ==
    Classified =>
        /\ ResultOfOrder.state = "ACTION_REQUIRED" =>
               ResultOfOrder.action_reason \in ActionReasons
        /\ ResultOfOrder.state = "FAILED" => ResultOfOrder.action_reason = None
        /\ ResultOfOrder.state = "SUCCESS" =>
               /\ ResultOfOrder.action_reason
                      \in {None, Str(<<"CONVERGE_DATA_INCONSISTENCY">>)}
               /\ ~OrderHasAnomaly
               /\ order.order_state
                      \notin {Str(<<"ERROR">>), Str(<<"PAYMENT_CANCELLED">>)}

\* an order whose shipment was settled without confirmation was downgraded
\* from SUCCESS and carries the reason of the downgrade
C28_Witness ==
    /\ Classified
    /\ OrderSettledNoAsn
    /\ ResultOfOrder.state = "ACTION_REQUIRED"
    /\ ResultOfOrder.action_reason = Str(<<"SETTLED_NO_ASN">>)
    /\ Occurrences(action_required_orders, order.process_number) = 1

\* C29: after classify_orders an order has is_retry_success exactly when it is
\* in retry_success_orders, where it occurs at most once; such an order's
\* final state is SUCCESS, so an order the SETTLED_NO_ASN block downgraded is
\* never a retry success, and its previous_failed_attempt is another order
\* with the same customer key, final state FAILED or ACTION_REQUIRED and an
\* order date not later than its own.
C29_RetryLinksWellFormed ==
    pc = "done" =>
        \A order_id \in DOMAIN orders_result :
            LET result == orders_result[order_id] IN
            /\ result.is_retry_success
                   <=> Occurrences(retry_success_orders, order_id) > 0
            /\ Occurrences(retry_success_orders, order_id) <= 1
            /\ result.is_retry_success =>
                  /\ result.state = "SUCCESS"
                  /\ "previous_failed_attempt" \in DOMAIN result
                  /\ result.previous_failed_attempt \in DOMAIN orders_result
                  /\ result.previous_failed_attempt # order_id
                  /\ LET previous == orders_result[result.previous_failed_attempt] IN
                     /\ ~Keyless(result)
                     /\ KeyOf(previous) = KeyOf(result)
                     /\ previous.state \in {"FAILED", "ACTION_REQUIRED"}
                     /\ previous.order_date.v <= result.order_date.v

\* an order the SETTLED_NO_ASN block downgraded is not marked, and the SUCCESS
\* order of the same customer after it is linked to it
C29_Witness ==
    /\ pc = "done"
    /\ Len(orders_result) = 2
    /\ orders_result[1].action_reason = Str(<<"SETTLED_NO_ASN">>)
    /\ orders_result[1].state = "ACTION_REQUIRED"
    /\ ~orders_result[1].is_retry_success
    /\ orders_result[2].is_retry_success
    /\ orders_result[2].previous_failed_attempt = 1
    /\ retry_success_orders = <<2>>

-----------------------------------------------------------------------------
(* Properties of a run of the endpoint *)

\* what the resolvers of the run raised, if one did
RaisedByResolver ==
    IF current_result.kind = "raise" THEN current_result
    ELSE IF settled_result.kind = "raise" THEN settled_result
    ELSE Pending

NoClassification ==
    /\ pc = "idle"
    /\ orders_result = <<>>
    /\ successful_orders = <<>> /\ failed_orders = {}
    /\ action_required_orders = <<>>

====
